---- MODULE Spec2Model ----
(***************************************************************************)
(* A model of the PingOne forms utility: the token cache of                *)
(* getAccessToken, the retrying HTTP client of createApiClient, the three  *)
(* resource operations listForms / downloadForm / uploadForm, and the      *)
(* export and import batches built on them.                                *)
(*                                                                         *)
(* Execution is single-threaded and cooperative: one action of the model   *)
(* is the code that runs between two suspensions (a network call, a        *)
(* backoff timer, a prompt, a file access).                                *)
(*                                                                         *)
(* An error message is a sequence of fragments, one per literal piece and  *)
(* one per interpolated value of the template literal that builds it.      *)
(***************************************************************************)
EXTENDS Integers, Sequences, FiniteSets, TLC

VARIABLES
    now,          \* Date.now(), in ms
    tokenCache,   \* the module-level Map of auth: cache key -> TokenCache
    storedBy,     \* cache key -> display name of the credential whose exchange set it
    grants,       \* cache key -> the token response its entry was made from, and when
    auth,         \* the getAccessToken calls: slot -> position and result
    op,           \* the resource operation in progress: kind, env, formId, formData
    oppc,         \* its position: idle, auth, inflight, backoff, returned, threw
    client,       \* the axios instance createApiClient built: baseURL and bearer token
    config,       \* the config of the request in progress, with its _retryCount
    sent,         \* how many times the request in progress has been sent
    delays,       \* the backoff delays injected for the request in progress
    failures,     \* how many retryable failures the request in progress has received
    lastResponse, \* what the last send of the request in progress was answered with
    forms,        \* the forms array of listForms
    served,       \* the pages served to this listForms, in order: each one's forms
    opResult,     \* the value the operation returned
    opError,      \* the message of the Error the operation threw
    caught,       \* the error that reached the catch block of the operation
    followed,     \* the next link listForms took the url of the request in progress from
    batch,        \* the downloadForms / uploadForms call in progress: kind, env, items
    bpc,          \* its position
    bi,           \* the index of the item its loop is at
    disk,         \* the ./forms directory: filename -> the JSON document in the file
    pending,      \* the form being saved: filename, cleanedFormData and rawFormData
    downloadedFiles, \* downloadForms: the paths of the files saved
    formsWithData,   \* uploadForms: the files loaded, with their documents
    nameMap,      \* uploadForms: filename -> the name the user gave
    successful,   \* uploadForms: the filenames uploaded
    failed,       \* uploadForms: the failures, each a filename and an error
    batchError,   \* the message of the Error downloadForms threw
    started,      \* the ids (filenames) downloadForm (uploadForm) was called for, in order
    loads,        \* filename -> how loadFormFromFile ended for it in this uploadForms
    stored,       \* the platform: tenant -> the forms it holds, in the order it lists them
    accepted,     \* tenant -> the names of the forms whose upload the platform accepted
    environments, \* environments.json: missing, unparsable, or the value parsed from it
    cfgpc,        \* the position of loadConfig: idle, returned or threw
    loaded,       \* the records loadConfig returned
    cfgError      \* the message of the Error loadConfig threw

(***************************************************************************)
(* Bounds of the model.                                                    *)
(***************************************************************************)
MaxTicks == 4

TickMs == {10000}

MaxNow == MaxTicks * 10000

MaxPages == 3

\* the most items of an export or an import
MaxBatch == 3

\* the most forms in a page of the platform
PageSize == 2

\* where operations are called one after the other for ever, none starts
\* later than this
MaxStart == 0

Slots == {1, 2}

(***************************************************************************)
(* Data.                                                                   *)
(***************************************************************************)

\* EnvConfig records. "Dev US" and "Dev EU" have the same envId and clientId
\* and differ in every other field; "Prod" differs in envId.
Envs ==
    { [name |-> "Dev US", envId |-> "t1", clientId |-> "c1",
       clientSecret |-> "s1", tld |-> "com"],
      [name |-> "Dev EU", envId |-> "t1", clientId |-> "c1",
       clientSecret |-> "s2", tld |-> "eu"],
      [name |-> "Prod", envId |-> "t2", clientId |-> "c1",
       clientSecret |-> "s3", tld |-> "com"] }

NoEnv == [name |-> "", envId |-> "", clientId |-> "", clientSecret |-> "", tld |-> ""]

EnvNames == {e.name : e \in Envs}

\* access_token and expires_in (seconds) of a TokenResponse
AccessTokens == {"tokA", "tokB"}

ExpiresIn == {30, 40}

TOKEN_BUFFER_MS == 30000

CacheKeyWithName(env) == env.name \o ":" \o env.envId \o ":" \o env.clientId

\* a key made of the environment id alone
CacheKeyOfTenant(env) == env.envId

\* const cacheKey = `${env.envId}:${env.clientId}`
CacheKey(env) == env.envId \o ":" \o env.clientId

CacheKeys == {CacheKey(e) : e \in Envs}

\* tokenCache.get(key) of a key that was never set
NoEntry == [present |-> FALSE, token |-> "", expiresAt |-> 0]

(***************************************************************************)
(* What a request can end in.  An AxiosError carries the response when one *)
(* was received (any status outside 200..299), and none on a connection    *)
(* failure or a timeout; anything else thrown is not an AxiosError.        *)
(***************************************************************************)
Statuses == {400, 401, 403, 404, 409, 429, 499, 500, 503}

\* response.data.error_description / response.data.message ("" when absent)
PlatformTexts == {"", "platform text"}

AxiosErr(status, text) ==
    [axios |-> TRUE, hasResponse |-> TRUE, status |-> status, text |-> text,
     message |-> <<"Request failed with status code">>]

NoResponseErr ==
    [axios |-> TRUE, hasResponse |-> FALSE, status |-> 0, text |-> "",
     message |-> <<"Network Error">>]

\* new Error(message), or any other non-Axios value thrown
PlainErr(message) ==
    [axios |-> FALSE, hasResponse |-> FALSE, status |-> 0, text |-> "",
     message |-> message]

TransportErrors ==
    {AxiosErr(s, t) : s \in Statuses, t \in PlatformTexts}
        \cup {NoResponseErr, PlainErr(<<"unexpected">>)}

\* error.response?.data?.<field> || error.message
MessageOf(error) == IF error.text # "" THEN <<error.text>> ELSE error.message

Contains(msg, s) == \E i \in DOMAIN msg : msg[i] = s

(***************************************************************************)
(* getAccessToken                                                          *)
(***************************************************************************)
TokenOk(tok, exp) == [ok |-> TRUE, access_token |-> tok, expires_in |-> exp]

TokenFail(error) == [ok |-> FALSE, error |-> error]

TokenOutcomes ==
    {TokenOk(t, x) : t \in AccessTokens, x \in ExpiresIn}
        \cup {TokenFail(e) : e \in TransportErrors}

\* the catch block of getAccessToken: the message of the Error it throws
AuthCatch(env, error) ==
    IF error.axios
    THEN IF error.hasResponse /\ error.status = 401
         THEN <<"Authentication failed for ", env.name, ": Invalid client credentials">>
         ELSE IF error.hasResponse /\ error.status = 403
         THEN <<"Access denied for ", env.name, ": Insufficient permissions">>
         ELSE <<"Failed to authenticate with ", env.name, ": ">> \o MessageOf(error)
    ELSE <<"Network error while authenticating with ", env.name>>

\* a slot: pc is idle, waiting, returned or threw; result is the token returned,
\* error the message of the Error thrown and cause what the transport threw;
\* sent counts the token requests of the call
IdleAuth ==
    [pc |-> "idle", env |-> NoEnv, result |-> "", error |-> <<>>,
     cause |-> PlainErr(<<>>), sent |-> 0]

CacheFreshAtBuffer(cached, t) == cached.present /\ cached.expiresAt >= t + TOKEN_BUFFER_MS

\* cached && cached.expiresAt > Date.now() + 30000
CacheFresh(cached, t) == cached.present /\ cached.expiresAt > t + TOKEN_BUFFER_MS

\* getAccessToken up to its first suspension: a fresh entry is returned,
\* otherwise the token request is sent
AuthCall(s, env) ==
    LET cached == tokenCache[CacheKey(env)]
    IN  IF CacheFresh(cached, now)
        THEN [auth EXCEPT ![s] = [IdleAuth EXCEPT !.pc = "returned", !.env = env,
                                                  !.result = cached.token]]
        ELSE [auth EXCEPT ![s] = [IdleAuth EXCEPT !.pc = "waiting", !.env = env,
                                                  !.sent = 1]]

\* an entry whose expiry adds the seconds of expires_in to the milliseconds
NewEntryInSeconds(r, t) ==
    [present |-> TRUE, token |-> r.access_token, expiresAt |-> t + r.expires_in]

\* the entry getAccessToken stores for a token response processed at time t
NewEntry(r, t) ==
    [present |-> TRUE, token |-> r.access_token, expiresAt |-> t + r.expires_in * 1000]

\* a getAccessToken that sends the token request again after a 429 or a 5xx
AuthResumeRetrying(s, r) ==
    IF r.ok
    THEN [auth EXCEPT ![s].pc = "returned", ![s].result = r.access_token]
    ELSE IF r.error.hasResponse /\ (r.error.status = 429 \/ r.error.status >= 500)
              /\ auth[s].sent < 4
         THEN [auth EXCEPT ![s].sent = @ + 1]
         ELSE [auth EXCEPT ![s].pc = "threw", ![s].cause = r.error,
                           ![s].error = AuthCatch(auth[s].env, r.error)]

\* getAccessToken from the answer of the token endpoint on
AuthResume(s, r) ==
    IF r.ok
    THEN [auth EXCEPT ![s].pc = "returned", ![s].result = r.access_token]
    ELSE [auth EXCEPT ![s].pc = "threw", ![s].cause = r.error,
                      ![s].error = AuthCatch(auth[s].env, r.error)]

\* a cache that drops the entry of a credential whose exchange failed
CacheAfterDropping(s, r) ==
    IF r.ok
    THEN [tokenCache EXCEPT ![CacheKey(auth[s].env)] = NewEntry(r, now)]
    ELSE [tokenCache EXCEPT ![CacheKey(auth[s].env)] = NoEntry]

CacheAfter(s, r) ==
    IF r.ok
    THEN [tokenCache EXCEPT ![CacheKey(auth[s].env)] = NewEntry(r, now)]
    ELSE tokenCache

StoredByAfter(s, r) ==
    IF r.ok
    THEN [storedBy EXCEPT ![CacheKey(auth[s].env)] = auth[s].env.name]
    ELSE storedBy

\* no response has made the entry
NoGrant == [access_token |-> "", expires_in |-> 0, at |-> 0, envId |-> "", clientId |-> ""]

\* the response r to the exchange of slot s, as the one the entry is made from
GrantsAfter(s, r) ==
    IF r.ok
    THEN [grants EXCEPT ![CacheKey(auth[s].env)] =
             [access_token |-> r.access_token, expires_in |-> r.expires_in, at |-> now,
              envId |-> auth[s].env.envId, clientId |-> auth[s].env.clientId]]
    ELSE grants

(***************************************************************************)
(* JSON objects are functions from field names to values.                  *)
(***************************************************************************)
Undefined == "undefined"

Get(obj, k) == IF k \in DOMAIN obj THEN obj[k] ELSE Undefined

NoData == <<>>

Metadata ==
    "_links" :> "self-link" @@ "environment" :> "env-ref"
        @@ "created" :> "2024-01-01" @@ "modified" :> "2025-01-01"

\* the forms of the platform: one has no description
RemoteForms ==
    { ("id" :> "f-1" @@ "name" :> "Login" @@ "description" :> "sign-in"
          @@ "components" :> "fields-1" @@ Metadata),
      ("id" :> "f-2" @@ "name" :> "alpha" @@ "components" :> "fields-2" @@ Metadata),
      ("id" :> "f-3" @@ "name" :> "Log In!" @@ "description" :> "sign-in v2"
          @@ "components" :> "fields-3" @@ Metadata) }

FormIds == {f["id"] : f \in RemoteForms}

\* the order of a.localeCompare(b) on the names in use: letters first, case
\* second
Collation == <<"alpha", "Log In!", "Login", "zebra">>

Rank(name) == CHOOSE i \in DOMAIN Collation : Collation[i] = name

LocaleCompare(a, b) == Rank(a) - Rank(b)

(***************************************************************************)
(* URLs: host is "" for a relative URL, path is the list of its segments,  *)
(* query is its search string.                                             *)
(***************************************************************************)
EmptyUrl == [host |-> "", path |-> <<>>, query |-> ""]

\* buildApiUrl(tld) = `https://api.pingone.${tld}/v1`
buildApiUrl(tld) ==
    [host |-> "https://api.pingone." \o tld, path |-> <<"v1">>, query |-> ""]

\* `/environments/${env.envId}/forms`
FormsUrl(env) ==
    [host |-> "", path |-> <<"environments", env.envId, "forms">>, query |-> ""]

\* `/environments/${env.envId}/forms/${formId}`
FormUrl(env, formId) ==
    [host |-> "", path |-> <<"environments", env.envId, "forms", formId>>, query |-> ""]

\* url.startsWith('http')
IsAbsolute(url) == url.host # ""

\* axios: the URL a request of this client addresses (baseURL joined with a
\* relative url, an absolute url as it is)
FullUrl(baseURL, url) ==
    IF IsAbsolute(url)
    THEN url
    ELSE [host |-> baseURL.host, path |-> baseURL.path \o url.path, query |-> url.query]

\* the next links a page of the forms collection of env can carry: none, a
\* relative one, an absolute one under the API base URL
NextLinks(env) ==
    { EmptyUrl,
      [FormsUrl(env) EXCEPT !.query = "?cursor=n"],
      [host |-> buildApiUrl(env.tld).host,
       path |-> buildApiUrl(env.tld).path \o FormsUrl(env).path,
       query |-> "?cursor=n"] }

(***************************************************************************)
(* createApiClient: the retry interceptor                                  *)
(***************************************************************************)
MAX_RETRIES == 3

BASE_DELAY == 1000

RetryableStatus(status) == status = 429 \/ status >= 500

ShouldRetryAnyError(error, retryCount) ==
    /\ error.hasResponse
    /\ error.status >= 400
    /\ retryCount < MAX_RETRIES

\* a retry condition without the limit on the counter
ShouldRetryUnbounded(error, retryCount) ==
    /\ error.hasResponse
    /\ RetryableStatus(error.status)

\* shouldRetry, for an error that carries its request config
ShouldRetry(error, retryCount) ==
    /\ error.hasResponse
    /\ RetryableStatus(error.status)
    /\ retryCount < MAX_RETRIES

\* a delay that starts at twice the base delay
BackoffDelayDoubled(retryCount) == BASE_DELAY * 2 ^ retryCount

BackoffDelayLinear(retryCount) == BASE_DELAY * retryCount

\* BASE_DELAY * Math.pow(2, config._retryCount - 1)
BackoffDelay(retryCount) == BASE_DELAY * 2 ^ (retryCount - 1)

\* client.get(url) / client.post(url, data): the config of a new request
NewRequest(method, url, data, token) ==
    [method |-> method, url |-> url, data |-> data, token |-> token, retryCount |-> 0]

ApiOk(data) == [kind |-> "ok", data |-> data, error |-> PlainErr(<<>>)]

ApiFail(error) == [kind |-> "fail", data |-> NoData, error |-> error]

NoResponseYet == [kind |-> "none", data |-> NoData, error |-> PlainErr(<<>>)]

ApiFailures == {ApiFail(e) : e \in TransportErrors}

(***************************************************************************)
(* listForms, downloadForm, uploadForm                                     *)
(***************************************************************************)
\* a page of the collection: data._embedded?.forms and data._links?.next?.href
Page(hasForms, pageForms, next) ==
    [hasForms |-> hasForms, forms |-> pageForms, next |-> next]

\* { id: form.id, name: form.name, description: form.description }
SummaryOf(form) ==
    [id |-> Get(form, "id"), name |-> Get(form, "name"),
     description |-> Get(form, "description")]

PageSummariesFirstOnly(page) ==
    IF page.hasForms /\ page.forms # <<>>
    THEN <<SummaryOf(page.forms[1])>>
    ELSE <<>>

\* forms.push(...pageForms)
PageSummaries(page) ==
    IF page.hasForms
    THEN [i \in DOMAIN page.forms |-> SummaryOf(page.forms[i])]
    ELSE <<>>

\* the url of the next page: null without a next link, an absolute link cut
\* down to urlObj.pathname + urlObj.search
NextUrl(page) ==
    IF page.next = EmptyUrl
    THEN EmptyUrl
    ELSE IF IsAbsolute(page.next)
         THEN [host |-> "", path |-> page.next.path, query |-> page.next.query]
         ELSE page.next

\* s with x put after its last element that does not sort after x
RECURSIVE InsertByName(_, _)
InsertByName(s, x) ==
    IF s = <<>> \/ LocaleCompare(s[Len(s)].name, x.name) <= 0
    THEN Append(s, x)
    ELSE Append(InsertByName(SubSeq(s, 1, Len(s) - 1), x), s[Len(s)])

\* forms.sort((a, b) => a.name.localeCompare(b.name)), a stable sort
RECURSIVE SortByName(_)
SortByName(s) ==
    IF s = <<>>
    THEN <<>>
    ELSE InsertByName(SortByName(SubSeq(s, 1, Len(s) - 1)), s[Len(s)])

NoOp == [kind |-> "none", env |-> NoEnv, formId |-> "", formData |-> NoData]

ListCatchWithout404(env, error) ==
    IF error.axios
    THEN IF error.hasResponse /\ error.status = 401
         THEN <<"Authentication failed for ", env.name, ": Token may have expired">>
         ELSE IF error.hasResponse /\ error.status = 403
         THEN <<"Access denied for ", env.name, ": Insufficient permissions to list forms">>
         ELSE <<"API error for ", env.name, ": ">> \o MessageOf(error)
    ELSE <<"Network error while fetching forms from ", env.name>>

\* the catch block of listForms
ListCatch(env, error) ==
    IF error.axios
    THEN IF error.hasResponse /\ error.status = 401
         THEN <<"Authentication failed for ", env.name, ": Token may have expired">>
         ELSE IF error.hasResponse /\ error.status = 403
         THEN <<"Access denied for ", env.name, ": Insufficient permissions to list forms">>
         ELSE IF error.hasResponse /\ error.status = 404
         THEN <<"Forms endpoint not found for ", env.name>>
         ELSE <<"API error for ", env.name, ": ">> \o MessageOf(error)
    ELSE <<"Network error while fetching forms from ", env.name>>

\* the catch block of downloadForm
DownloadCatch(env, formId, error) ==
    IF error.axios
    THEN IF error.hasResponse /\ error.status = 401
         THEN <<"Authentication failed for ", env.name, ": Token may have expired">>
         ELSE IF error.hasResponse /\ error.status = 403
         THEN <<"Access denied for ", env.name,
                ": Insufficient permissions to download form ", formId>>
         ELSE IF error.hasResponse /\ error.status = 404
         THEN <<"Form ", formId, " not found in ", env.name>>
         ELSE <<"API error downloading form ", formId, " from ", env.name, ": ">>
                  \o MessageOf(error)
    ELSE <<"Network error while downloading form ", formId, " from ", env.name>>

\* the catch block of uploadForm
UploadCatch(env, formData, error) ==
    IF error.axios
    THEN IF error.hasResponse /\ error.status = 401
         THEN <<"Authentication failed for ", env.name, ": Token may have expired">>
         ELSE IF error.hasResponse /\ error.status = 403
         THEN <<"Access denied for ", env.name, ": Insufficient permissions to upload forms">>
         ELSE IF error.hasResponse /\ error.status = 400
         THEN <<"Invalid form data for \"", Get(formData, "name"), "\": ">>
                  \o MessageOf(error)
         ELSE IF error.hasResponse /\ error.status = 409
         THEN <<"Form \"", Get(formData, "name"), "\" already exists in ", env.name,
                " or there's a conflict">>
         ELSE <<"API error uploading form \"", Get(formData, "name"), "\" to ",
                env.name, ": ">> \o MessageOf(error)
    ELSE <<"Network error while uploading form \"", Get(formData, "name"), "\" to ",
           env.name>>

OpCatch(o, error) ==
    CASE o.kind = "listForms" -> ListCatch(o.env, error)
      [] o.kind = "downloadForm" -> DownloadCatch(o.env, o.formId, error)
      [] o.kind = "uploadForm" -> UploadCatch(o.env, o.formData, error)

\* the first request of an operation
FirstRequest(o, token) ==
    CASE o.kind = "listForms" -> NewRequest("GET", FormsUrl(o.env), NoData, token)
      [] o.kind = "downloadForm" ->
            NewRequest("GET", FormUrl(o.env, o.formId), NoData, token)
      [] o.kind = "uploadForm" -> NewRequest("POST", FormsUrl(o.env), o.formData, token)

tokVars == <<now, tokenCache, storedBy, grants, auth>>

opVars ==
    <<op, oppc, client, config, sent, delays, failures, lastResponse, forms, served,
      opResult, opError, caught, followed>>

batchVars ==
    <<batch, bpc, bi, disk, pending, downloadedFiles, formsWithData, nameMap,
      successful, failed, batchError, started, loads>>

platVars == <<stored, accepted>>

cfgVars == <<environments, cfgpc, loaded, cfgError>>

vars == <<tokVars, opVars, batchVars, platVars, cfgVars>>

NoClient == [baseURL |-> EmptyUrl, token |-> ""]

NoConfig == NewRequest("", EmptyUrl, NoData, "")

OpIdle ==
    /\ op' = NoOp
    /\ oppc' = "idle"
    /\ client' = NoClient
    /\ config' = NoConfig
    /\ sent' = 0
    /\ delays' = <<>>
    /\ failures' = 0
    /\ lastResponse' = NoResponseYet
    /\ forms' = <<>>
    /\ served' = <<>>
    /\ opResult' = NoData
    /\ opError' = <<>>
    /\ caught' = PlainErr(<<>>)
    /\ followed' = EmptyUrl

\* a request that goes on with the counter of the request before it
SendSharingCounter(request) ==
    /\ config' = [request EXCEPT !.retryCount = config.retryCount]
    /\ sent' = 1
    /\ delays' = <<>>
    /\ failures' = 0
    /\ lastResponse' = NoResponseYet
    /\ oppc' = "inflight"

\* a request is handed to the transport for the first time
Send(request) ==
    /\ config' = request
    /\ sent' = 1
    /\ delays' = <<>>
    /\ failures' = 0
    /\ lastResponse' = NoResponseYet
    /\ oppc' = "inflight"

\* a client whose requests do not carry the token it was built with
EnterClientWithoutBearer(o, token) ==
    /\ client' = [baseURL |-> buildApiUrl(o.env.tld), token |-> token]
    /\ Send(FirstRequest(o, ""))
    /\ UNCHANGED <<forms, served, opResult, opError, caught, followed>>

\* createApiClient after the token arrived, and the operation's first request
EnterClient(o, token) ==
    /\ client' = [baseURL |-> buildApiUrl(o.env.tld), token |-> token]
    /\ Send(FirstRequest(o, token))
    /\ UNCHANGED <<forms, served, opResult, opError, caught, followed>>

\* the error reaches the catch block of the operation, which throws
Throw(o, error) ==
    /\ oppc' = "threw"
    /\ caught' = error
    /\ opError' = OpCatch(o, error)

(***************************************************************************)
(* Actions of the token manager                                            *)
(***************************************************************************)
\* a direct call of getAccessToken(env)
GetAccessToken(s, env) ==
    /\ auth[s].pc = "idle"
    /\ oppc = "idle"
    /\ now <= MaxNow
    /\ auth' = AuthCall(s, env)
    /\ UNCHANGED <<now, tokenCache, storedBy, grants, opVars, batchVars>>
    /\ UNCHANGED <<platVars, cfgVars>>

\* the token endpoint answers (or the request fails) and the call completes
TokenResponse(s, r) ==
    /\ auth[s].pc = "waiting"
    /\ oppc = "idle"
    /\ auth' = AuthResume(s, r)
    /\ tokenCache' = CacheAfter(s, r)
    /\ storedBy' = StoredByAfter(s, r)
    /\ grants' = GrantsAfter(s, r)
    /\ UNCHANGED <<now, opVars, batchVars>>
    /\ UNCHANGED <<platVars, cfgVars>>

\* the caller takes the token or the error
AuthDone(s) ==
    /\ auth[s].pc \in {"returned", "threw"}
    /\ oppc = "idle"
    /\ auth' = [auth EXCEPT ![s] = IdleAuth]
    /\ UNCHANGED <<now, tokenCache, storedBy, grants, opVars, batchVars>>
    /\ UNCHANGED <<platVars, cfgVars>>

\* time passes
Tick(d) ==
    /\ now < MaxNow
    /\ now' = now + d
    /\ UNCHANGED <<tokenCache, storedBy, grants, auth, opVars, batchVars>>
    /\ UNCHANGED <<platVars, cfgVars>>

(***************************************************************************)
(* Actions of a resource operation                                         *)
(***************************************************************************)
\* listForms / downloadForm / uploadForm is called: createApiClient calls
\* getAccessToken, and with a fresh cached token goes on to the first request
StartOp(o) ==
    /\ oppc = "idle"
    /\ auth[1].pc = "idle"
    /\ op' = o
    /\ auth' = AuthCall(1, o.env)
    /\ IF auth'[1].pc = "returned"
       THEN EnterClient(o, auth'[1].result)
       ELSE /\ oppc' = "auth"
            /\ UNCHANGED <<client, config, sent, delays, failures, lastResponse,
                           forms, served, opResult, opError, caught, followed>>
    /\ UNCHANGED <<now, tokenCache, storedBy, grants>>

\* a call of one of the three operations on its own
Call(o) ==
    /\ bpc = "idle"
    /\ StartOp(o)
    /\ UNCHANGED batchVars
    /\ UNCHANGED <<platVars, cfgVars>>

\* the token endpoint answers the operation's getAccessToken
OpTokenResponse(r) ==
    /\ oppc = "auth"
    /\ auth[1].pc = "waiting"
    /\ auth' = AuthResume(1, r)
    /\ tokenCache' = CacheAfter(1, r)
    /\ storedBy' = StoredByAfter(1, r)
    /\ grants' = GrantsAfter(1, r)
    /\ IF r.ok
       THEN EnterClient(op, r.access_token)
       ELSE /\ Throw(op, PlainErr(auth'[1].error))
            /\ UNCHANGED <<client, config, sent, delays, failures, lastResponse,
                           forms, served, opResult, followed>>
    /\ UNCHANGED <<now, op, batchVars>>
    /\ UNCHANGED <<platVars, cfgVars>>

\* a page arrives: listForms adds its forms and asks for the next page, or
\* returns the sorted list
ListPage(page) ==
    /\ served' = IF Len(served) < MaxPages
                 THEN Append(served, IF page.hasForms THEN page.forms ELSE <<>>)
                 ELSE served
    /\ IF NextUrl(page) # EmptyUrl
       THEN /\ forms' = forms \o PageSummaries(page)
            /\ Send(NewRequest("GET", NextUrl(page), NoData, client.token))
            /\ followed' = page.next
            /\ UNCHANGED opResult
       ELSE /\ forms' = SortByName(forms \o PageSummaries(page))
            /\ opResult' = forms'
            /\ oppc' = "returned"
            /\ lastResponse' = ApiOk(page)
            /\ UNCHANGED <<config, sent, delays, failures, followed>>
    /\ UNCHANGED <<opError, caught>>

\* the request in progress is answered: a success goes to the operation, a
\* failure to the retry interceptor
Respond(r) ==
    /\ oppc = "inflight"
    /\ IF r.kind = "ok"
       THEN IF op.kind = "listForms"
            THEN ListPage(r.data)
            ELSE /\ opResult' = r.data
                 /\ oppc' = "returned"
                 /\ lastResponse' = r
                 /\ UNCHANGED <<config, sent, delays, failures, forms, served,
                                opError, caught, followed>>
       ELSE /\ lastResponse' = r
            /\ failures' = failures + (IF r.error.hasResponse
                                          /\ (r.error.status = 429 \/ r.error.status > 499)
                                       THEN 1 ELSE 0)
            /\ IF r.error.axios /\ ShouldRetry(r.error, config.retryCount)
               THEN /\ config' = [config EXCEPT !.retryCount = @ + 1]
                    /\ delays' = Append(delays, BackoffDelay(config'.retryCount))
                    /\ oppc' = "backoff"
                    /\ UNCHANGED <<opError, caught>>
               ELSE /\ Throw(op, r.error)
                    /\ UNCHANGED <<config, delays>>
            /\ UNCHANGED <<sent, forms, served, opResult, followed>>
    /\ UNCHANGED <<tokVars, op, client, batchVars>>

\* the request in progress is answered, the platform staying as it is
ApiResponse(r) ==
    /\ Respond(r)
    /\ UNCHANGED <<platVars, cfgVars>>

\* the backoff delay has elapsed: the interceptor sends the same config again
Resubmit ==
    /\ oppc = "backoff"
    /\ now' = now + delays[Len(delays)]
    /\ sent' = sent + 1
    /\ lastResponse' = NoResponseYet
    /\ oppc' = "inflight"
    /\ UNCHANGED <<tokenCache, storedBy, grants, auth, op, client, config, delays, failures, forms,
                   served, opResult, opError, caught, followed, batchVars>>
    /\ UNCHANGED <<platVars, cfgVars>>

\* the result or the error of the operation is taken
OpTaken ==
    /\ oppc \in {"returned", "threw"}
    /\ OpIdle
    /\ auth' = [auth EXCEPT ![1] = IdleAuth]
    /\ UNCHANGED <<now, tokenCache, storedBy, grants>>

\* the caller of an operation called on its own takes the result or the error
OpDone ==
    /\ bpc = "idle"
    /\ OpTaken
    /\ UNCHANGED batchVars
    /\ UNCHANGED <<platVars, cfgVars>>

(***************************************************************************)
(* downloadForms and uploadForms, with saveFormToFile and loadFormFromFile *)
(***************************************************************************)
\* the characters of the names in use
Spell ==
    "Login" :> <<"L", "o", "g", "i", "n">>
        @@ "alpha" :> <<"a", "l", "p", "h", "a">>
        @@ "Log In!" :> <<"L", "o", "g", " ", "I", "n", "!">>
        @@ "zebra" :> <<"z", "e", "b", "r", "a">>

Uppers ==
    <<"A", "B", "C", "D", "E", "F", "G", "H", "I", "J", "K", "L", "M", "N", "O", "P",
      "Q", "R", "S", "T", "U", "V", "W", "X", "Y", "Z">>

Lowers ==
    <<"a", "b", "c", "d", "e", "f", "g", "h", "i", "j", "k", "l", "m", "n", "o", "p",
      "q", "r", "s", "t", "u", "v", "w", "x", "y", "z">>

Digits == {"0", "1", "2", "3", "4", "5", "6", "7", "8", "9"}

IsSpace(c) == c \in {" ", "\t", "\n"}

\* [a-zA-Z0-9\s-_]
IsKept(c) ==
    \/ \E i \in DOMAIN Uppers : c = Uppers[i] \/ c = Lowers[i]
    \/ c \in Digits
    \/ IsSpace(c)
    \/ c \in {"-", "_"}

ToLower(c) ==
    IF \E i \in DOMAIN Uppers : c = Uppers[i]
    THEN Lowers[CHOOSE i \in DOMAIN Uppers : c = Uppers[i]]
    ELSE c

\* .replace(/\s+/g, '-')
RECURSIVE HyphenateSpaces(_)
HyphenateSpaces(cs) ==
    IF cs = <<>>
    THEN <<>>
    ELSE IF IsSpace(cs[1])
         THEN IF Len(cs) > 1 /\ IsSpace(cs[2])
              THEN HyphenateSpaces(Tail(cs))
              ELSE <<"-">> \o HyphenateSpaces(Tail(cs))
         ELSE <<cs[1]>> \o HyphenateSpaces(Tail(cs))

\* form.name.replace(/[^a-zA-Z0-9\s-_]/g, '').replace(/\s+/g, '-').toLowerCase()
Sanitize(cs) ==
    LET kept == SelectSeq(cs, IsKept)
        hyphened == HyphenateSpaces(kept)
    IN  [i \in DOMAIN hyphened |-> ToLower(hyphened[i])]

\* `${sanitizedName}.json`
FilenameOf(name) == Sanitize(Spell[name]) \o <<".json">>

\* join(FORMS_DIR, filename)
PathOf(filename) == <<"forms/">> \o filename

\* the fields transformFormForExport deletes
RemovedFields == {"_links", "id", "environment", "created", "modified"}

\* a transformation that leaves the id in the copy
TransformKeepingId(formData) ==
    [k \in DOMAIN formData \ (RemovedFields \ {"id"}) |-> formData[k]]

\* the object handed to transformFormForExport, after the call: the fields
\* are deleted from the copy { ...formData }, never from the object itself
ArgumentAfterTransform(formData) == formData

\* a copy of formData without the fields that are not exported
transformFormForExport(formData) ==
    [k \in DOMAIN formData \ RemovedFields |-> formData[k]]

FormNames == {f["name"] : f \in RemoteForms}

Filenames == {FilenameOf(n) : n \in FormNames}

NoFile == [present |-> FALSE, data |-> NoData]

FileOf(data) == [present |-> TRUE, data |-> data]

NoPending == [filename |-> <<>>, data |-> NoData, raw |-> NoData]

NoBatch == [kind |-> "none", env |-> NoEnv, items |-> <<>>]

\* the LocalFormFile scanFormsDir makes of a file
LocalFormFile(filename) ==
    [filename |-> filename, name |-> SubSeq(filename, 1, Len(filename) - 1),
     isValid |-> TRUE]

DownloadOp(env, formId) ==
    [kind |-> "downloadForm", env |-> env, formId |-> formId, formData |-> NoData]

UploadOp(env, formData) ==
    [kind |-> "uploadForm", env |-> env, formId |-> "", formData |-> formData]

\* the catch block of downloadForms: the message of the Error it throws
DownloadFormsCatch(form, message) ==
    <<"Failed to download form \"", form.name, "\" (", form.id, "): ">> \o message

\* the catch block of saveFormToFile
SaveCatch(filename, message) ==
    <<"Failed to save form to file ">> \o filename \o <<": ">> \o message

\* the catch block of loadFormFromFile
LoadCatch(filename, message) ==
    <<"Failed to load form from file ">> \o filename \o <<": ">> \o message

\* { ...formData, name: formName }
WithName(formData, formName) == ("name" :> formName) @@ formData

\* nameMap.get(localForm.filename) || formData.name || localForm.name
FormNameFor(entry) ==
    IF nameMap[entry.localForm.filename] # ""
    THEN nameMap[entry.localForm.filename]
    ELSE IF "name" \in DOMAIN entry.formData /\ entry.formData["name"] # ""
         THEN entry.formData["name"]
         ELSE entry.localForm.name

\* a loop of downloadForms that takes the forms from the last to the first
ExportLoopBackwards ==
    /\ batch.kind = "export"
    /\ bpc = "loop"
    /\ IF bi > Len(batch.items)
       THEN /\ bpc' = "done"
            /\ UNCHANGED <<tokVars, opVars, started>>
       ELSE /\ bpc' = "downloading"
            /\ StartOp(DownloadOp(batch.env, batch.items[Len(batch.items) + 1 - bi].id))
            /\ started' = Append(started, batch.items[Len(batch.items) + 1 - bi].id)
    /\ UNCHANGED <<batch, bi, disk, pending, downloadedFiles, formsWithData, nameMap,
                   successful, failed, batchError, loads>>
    /\ UNCHANGED <<platVars, cfgVars>>

\* the head of the loop of downloadForms: the next form is downloaded, or the
\* paths are returned
ExportLoop ==
    /\ batch.kind = "export"
    /\ bpc = "loop"
    /\ IF bi > Len(batch.items)
       THEN /\ bpc' = "done"
            /\ UNCHANGED <<tokVars, opVars, started>>
       ELSE /\ bpc' = "downloading"
            /\ StartOp(DownloadOp(batch.env, batch.items[bi].id))
            /\ started' = Append(started, batch.items[bi].id)
    /\ UNCHANGED <<batch, bi, disk, pending, downloadedFiles, formsWithData, nameMap,
                   successful, failed, batchError, loads>>
    /\ UNCHANGED <<platVars, cfgVars>>

\* downloadForms(env, forms) is called
DownloadForms(env, selected) ==
    /\ bpc = "idle"
    /\ oppc = "idle"
    /\ batch' = [kind |-> "export", env |-> env, items |-> selected]
    /\ bpc' = "loop"
    /\ bi' = 1
    /\ downloadedFiles' = <<>>
    /\ started' = <<>>
    /\ batchError' = <<>>
    /\ UNCHANGED <<tokVars, opVars, disk, pending, formsWithData, nameMap, successful,
                   failed, loads>>
    /\ UNCHANGED <<platVars, cfgVars>>

\* downloadForm ended: its form is cleaned and handed to saveFormToFile, its
\* error is thrown on by the catch block of the loop
DownloadEnded ==
    /\ batch.kind = "export"
    /\ bpc = "downloading"
    /\ OpTaken
    /\ IF oppc = "returned"
       THEN /\ pending' = [filename |-> FilenameOf(batch.items[bi].name),
                           data |-> transformFormForExport(opResult),
                           raw |-> ArgumentAfterTransform(opResult)]
            /\ bpc' = "saving"
            /\ UNCHANGED batchError
       ELSE /\ batchError' = DownloadFormsCatch(batch.items[bi], opError)
            /\ bpc' = "threw"
            /\ UNCHANGED pending
    /\ UNCHANGED <<batch, bi, disk, downloadedFiles, formsWithData, nameMap, successful,
                   failed, started, loads>>
    /\ UNCHANGED <<platVars, cfgVars>>

\* saveFormToFile has looked for the file: an existing one is asked about
FileChecked ==
    /\ bpc = "saving"
    /\ bpc' = IF disk[pending.filename].present THEN "prompt" ELSE "writing"
    /\ UNCHANGED <<tokVars, opVars, batch, bi, disk, pending, downloadedFiles,
                   formsWithData, nameMap, successful, failed, batchError, started, loads>>
    /\ UNCHANGED <<platVars, cfgVars>>

\* promptForOverwrite is answered: without the user's consent saveFormToFile
\* returns '' and the loop goes on
OverwriteAnswered(shouldOverwrite) ==
    /\ bpc = "prompt"
    /\ IF shouldOverwrite
       THEN /\ bpc' = "writing"
            /\ UNCHANGED <<bi, pending>>
       ELSE /\ bpc' = "loop"
            /\ bi' = bi + 1
            /\ pending' = NoPending
    /\ UNCHANGED <<tokVars, opVars, batch, disk, downloadedFiles, formsWithData, nameMap,
                   successful, failed, batchError, started, loads>>
    /\ UNCHANGED <<platVars, cfgVars>>

\* writeFile ended: the path of a file written is kept, a failure is thrown
\* by saveFormToFile and thrown on by the catch block of the loop
WriteEnded(ok) ==
    /\ bpc = "writing"
    /\ IF ok
       THEN /\ disk' = [disk EXCEPT ![pending.filename] = FileOf(pending.data)]
            /\ downloadedFiles' = Append(downloadedFiles, PathOf(pending.filename))
            /\ bpc' = "loop"
            /\ bi' = bi + 1
            /\ UNCHANGED batchError
       ELSE /\ batchError' = DownloadFormsCatch(batch.items[bi],
                                                SaveCatch(pending.filename, <<"EACCES">>))
            /\ bpc' = "threw"
            /\ UNCHANGED <<disk, downloadedFiles, bi>>
    /\ pending' = NoPending
    /\ UNCHANGED <<tokVars, opVars, batch, formsWithData, nameMap, successful, failed,
                   started, loads>>
    /\ UNCHANGED <<platVars, cfgVars>>

\* the caller of downloadForms or uploadForms takes what it returned or
\* threw, and the locals of the call are gone
BatchDone ==
    /\ bpc \in {"done", "threw"}
    /\ batch' = NoBatch
    /\ bpc' = "idle"
    /\ bi' = 0
    /\ pending' = NoPending
    /\ downloadedFiles' = <<>>
    /\ formsWithData' = <<>>
    /\ nameMap' = [f \in Filenames |-> ""]
    /\ successful' = <<>>
    /\ failed' = <<>>
    /\ batchError' = <<>>
    /\ started' = <<>>
    /\ loads' = [f \in Filenames |-> ""]
    /\ UNCHANGED <<tokVars, opVars, disk>>
    /\ UNCHANGED <<platVars, cfgVars>>

\* uploadForms(env, localForms) is called and loads the first file
UploadForms(env, selected) ==
    /\ bpc = "idle"
    /\ oppc = "idle"
    /\ batch' = [kind |-> "import", env |-> env, items |-> selected]
    /\ bpc' = "loading"
    /\ bi' = 1
    /\ successful' = <<>>
    /\ failed' = <<>>
    /\ formsWithData' = <<>>
    /\ nameMap' = [f \in Filenames |-> ""]
    /\ started' = <<>>
    /\ loads' = [f \in Filenames |-> ""]
    /\ UNCHANGED <<tokVars, opVars, disk, pending, downloadedFiles, batchError>>
    /\ UNCHANGED <<platVars, cfgVars>>

\* a first loop that forgets the file whose load failed
FailedLoadForgotten(localForm, message) == failed

\* failed after the load of a file failed
FailedLoad(localForm, message) ==
    Append(failed, [filename |-> localForm.filename,
                    error |-> <<"Failed to load file: ">> \o message])

\* loadFormFromFile ended for the file the first loop is at; after the last
\* file uploadForms returns if none was loaded, and asks for the names if not
LoadEnded(ok) ==
    /\ bpc = "loading"
    /\ LET localForm == batch.items[bi]
       IN  /\ ok => disk[localForm.filename].present
           /\ loads' = [loads EXCEPT ![localForm.filename] = IF ok THEN "loaded" ELSE "failed"]
           /\ IF ok
              THEN /\ formsWithData' =
                         Append(formsWithData,
                                [localForm |-> localForm,
                                 formData |-> disk[localForm.filename].data])
                   /\ UNCHANGED failed
              ELSE /\ failed' = FailedLoad(localForm,
                                           LoadCatch(localForm.filename, <<"ENOENT">>))
                   /\ UNCHANGED formsWithData
    /\ IF bi < Len(batch.items)
       THEN /\ bi' = bi + 1
            /\ UNCHANGED bpc
       ELSE /\ bi' = 1
            /\ bpc' = IF formsWithData' = <<>> THEN "done" ELSE "naming"
    /\ UNCHANGED <<tokVars, opVars, batch, disk, pending, downloadedFiles, nameMap,
                   successful, batchError, started>>
    /\ UNCHANGED <<platVars, cfgVars>>

\* promptForMultipleFormNames: the name of the next loaded file is entered; the
\* uploads start after the last one
NameEntered(formName) ==
    /\ bpc = "naming"
    /\ nameMap' = [nameMap EXCEPT ![formsWithData[bi].localForm.filename] = formName]
    /\ IF bi < Len(formsWithData)
       THEN /\ bi' = bi + 1
            /\ UNCHANGED bpc
       ELSE /\ bi' = 1
            /\ bpc' = "loop"
    /\ UNCHANGED <<tokVars, opVars, batch, disk, pending, downloadedFiles, formsWithData,
                   successful, failed, batchError, started, loads>>
    /\ UNCHANGED <<platVars, cfgVars>>

\* the head of the second loop of uploadForms: the next loaded file is
\* uploaded under its name, or the two lists are returned
ImportLoop ==
    /\ batch.kind = "import"
    /\ bpc = "loop"
    /\ IF bi > Len(formsWithData)
       THEN /\ bpc' = "done"
            /\ UNCHANGED <<tokVars, opVars, started>>
       ELSE /\ bpc' = "uploading"
            /\ StartOp(UploadOp(batch.env,
                                WithName(formsWithData[bi].formData,
                                         FormNameFor(formsWithData[bi]))))
            /\ started' = Append(started, formsWithData[bi].localForm.filename)
    /\ UNCHANGED <<batch, bi, disk, pending, downloadedFiles, formsWithData, nameMap,
                   successful, failed, batchError, loads>>
    /\ UNCHANGED <<platVars, cfgVars>>

\* failed after the upload of a file failed
FailedUpload(localForm, message) ==
    Append(failed, [filename |-> localForm.filename, error |-> message])

\* uploadForm ended: the filename goes to successful, or to failed with the
\* message of the error, and the loop goes on
UploadEnded ==
    /\ batch.kind = "import"
    /\ bpc = "uploading"
    /\ OpTaken
    /\ IF oppc = "returned"
       THEN /\ successful' = Append(successful, formsWithData[bi].localForm.filename)
            /\ UNCHANGED failed
       ELSE /\ failed' = FailedUpload(formsWithData[bi].localForm, opError)
            /\ UNCHANGED successful
    /\ loads' = [loads EXCEPT ![formsWithData[bi].localForm.filename] =
                                   IF oppc = "returned" THEN "uploaded" ELSE "rejected"]
    /\ bpc' = "loop"
    /\ bi' = bi + 1
    /\ UNCHANGED <<batch, disk, pending, downloadedFiles, formsWithData, nameMap,
                   batchError, started>>
    /\ UNCHANGED <<platVars, cfgVars>>

(***************************************************************************)
(* The platform: per tenant (region and environment id) the forms it       *)
(* holds.  It serves the collection in pages and stores the forms posted.  *)
(***************************************************************************)
Tenants == {<<e.tld, e.envId>> : e \in Envs}

TenantOf(env) == <<env.tld, env.envId>>

FormById(id) == CHOOSE f \in RemoteForms : f["id"] = id

InitialForms ==
    [t \in Tenants |->
        CASE t = <<"com", "t1">> -> <<FormById("f-1"), FormById("f-2"), FormById("f-3")>>
          [] t = <<"com", "t2">> -> <<FormById("f-2")>>
          [] OTHER -> <<>>]

\* the ids the platform gives to the forms it creates
NewIds == <<"n-1", "n-2", "n-3", "n-4", "n-5", "n-6">>

Cursors == <<"", "?cursor=2", "?cursor=3", "?cursor=4", "?cursor=5">>

\* https://api.pingone.<tld>/v1/environments/<envId>/forms
CollectionUrl(t) ==
    [host |-> "https://api.pingone." \o t[1],
     path |-> <<"v1", "environments", t[2], "forms">>, query |-> ""]

ResourceUrl(t, id) == [CollectionUrl(t) EXCEPT !.path = @ \o <<id>>]

PageUrl(t, k) == [CollectionUrl(t) EXCEPT !.query = Cursors[k]]

\* the link to page k as the platform writes it: the whole URL, or the part
\* after the base URL of the API
NextLink(t, k, style) ==
    IF style = "absolute"
    THEN PageUrl(t, k)
    ELSE [host |-> "", path |-> Tail(PageUrl(t, k).path), query |-> PageUrl(t, k).query]

Min(a, b) == IF a < b THEN a ELSE b

PlatformPage(t, k, style) ==
    Page(TRUE,
         SubSeq(stored[t], (k - 1) * PageSize + 1, Min(k * PageSize, Len(stored[t]))),
         IF Len(stored[t]) > k * PageSize THEN NextLink(t, k + 1, style) ELSE EmptyUrl)

\* the created resource the platform answers a POST with
CreatedAs(formData, id) == formData @@ ("id" :> id) @@ Metadata

NameTaken(t, name) == \E i \in DOMAIN stored[t] : stored[t][i]["name"] = name

\* axios: the URL the request in progress addresses
Addressed == FullUrl(client.baseURL, config.url)

\* the tenant whose collection a POST to this URL adds to
PostedTo(u) == {t \in Tenants : u = CollectionUrl(t)}

\* what the platform answers the request in progress with
PlatformAnswer(style) ==
    LET u == Addressed
        pages == {tk \in Tenants \X DOMAIN Cursors : u = PageUrl(tk[1], tk[2])}
        found == {ti \in {x \in Tenants \X (1..Len(NewIds) + 3) : x[2] <= Len(stored[x[1]])} :
                     u = ResourceUrl(ti[1], stored[ti[1]][ti[2]]["id"])}
    IN  IF config.method = "GET" /\ pages # {}
        THEN LET tk == CHOOSE x \in pages : TRUE
             IN  ApiOk(PlatformPage(tk[1], tk[2], style))
        ELSE IF config.method = "GET" /\ found # {}
        THEN LET ti == CHOOSE x \in found : TRUE
             IN  ApiOk(stored[ti[1]][ti[2]])
        ELSE IF config.method = "POST" /\ PostedTo(u) # {}
        THEN LET t == CHOOSE x \in PostedTo(u) : TRUE
             IN  IF NameTaken(t, Get(config.data, "name")) \/ Len(stored[t]) >= Len(NewIds)
                 THEN ApiFail(AxiosErr(409, ""))
                 ELSE ApiOk(CreatedAs(config.data, NewIds[Len(stored[t]) + 1]))
        ELSE ApiFail(AxiosErr(404, ""))

\* the platform answers the request in progress, and keeps the form of a POST
\* it accepted
PlatformResponse(style) ==
    /\ oppc = "inflight"
    /\ LET r == PlatformAnswer(style)
       IN  /\ Respond(r)
           /\ IF config.method = "POST" /\ r.kind = "ok"
              THEN LET t == CHOOSE x \in PostedTo(Addressed) : TRUE
                   IN  /\ stored' = [stored EXCEPT ![t] = Append(@, r.data)]
                       /\ accepted' = [accepted EXCEPT ![t] = @ \cup {r.data["name"]}]
              ELSE UNCHANGED platVars
    /\ UNCHANGED cfgVars

(***************************************************************************)
(* loadConfig.  A JSON value is a record with its type t; a string is the  *)
(* sequence of its characters.                                             *)
(***************************************************************************)
Str(cs) == [t |-> "string", s |-> cs]

Num(n) == [t |-> "number", n |-> n]

Null == [t |-> "null"]

Obj(fields) == [t |-> "object", fields |-> fields]

Arr(items) == [t |-> "array", items |-> items]

NoEnvironmentsFile == [t |-> "missing"]

UnparsableFile == [t |-> "unparsable"]

\* !value
Falsy(v) ==
    \/ v.t \in {"null", "undefined"}
    \/ v.t = "string" /\ v.s = <<>>
    \/ v.t = "number" /\ v.n = 0

\* envObj[field]
Field(obj, k) == IF k \in DOMAIN obj.fields THEN obj.fields[k] ELSE [t |-> "undefined"]

VALID_TLDS ==
    {<<"c", "o", "m">>, <<"e", "u">>, <<"c", "a">>, <<"a", "s", "i", "a">>,
     <<"c", "o", "m", ".", "a", "u">>, <<"s", "g">>}

IsHex(c) ==
    c \in Digits \cup {"a", "b", "c", "d", "e", "f", "A", "B", "C", "D", "E", "F"}

\* /^[0-9a-f]{8}-[0-9a-f]{4}-[0-9a-f]{4}-[0-9a-f]{4}-[0-9a-f]{12}$/i
MatchesUuid(cs) ==
    /\ Len(cs) = 36
    /\ \A i \in 1..36 : IF i \in {9, 14, 19, 24} THEN cs[i] = "-" ELSE IsHex(cs[i])

requiredFields == <<"name", "envId", "clientId", "clientSecret", "tld">>

\* the first required field that is missing, empty or not a string: 0 if none
FirstMissing(env) ==
    LET bad == {i \in DOMAIN requiredFields :
                   LET v == Field(env, requiredFields[i])
                   IN  Falsy(v) \/ v.t # "string"}
    IN  IF bad = {} THEN 0 ELSE CHOOSE i \in bad : \A j \in bad : i <= j

\* validateEnvironment(env, index): the record, or the message of the Error
ValidateEnvironment(env, index) ==
    IF env.t # "object"
    THEN [ok |-> FALSE, error |-> <<"Environment at index ", index, " is not a valid object">>]
    ELSE IF FirstMissing(env) # 0
    THEN [ok |-> FALSE,
          error |-> <<"Environment at index ", index, " is missing required field: ",
                      requiredFields[FirstMissing(env)]>>]
    ELSE IF Field(env, "tld").s \notin VALID_TLDS
    THEN [ok |-> FALSE,
          error |-> <<"Environment at index ", index, " has invalid tld: ",
                      Field(env, "tld").s>>]
    ELSE IF ~MatchesUuid(Field(env, "envId").s)
    THEN [ok |-> FALSE,
          error |-> <<"Environment at index ", index, " has invalid envId format">>]
    ELSE [ok |-> TRUE,
          record |-> [name |-> Field(env, "name").s, envId |-> Field(env, "envId").s,
                      clientId |-> Field(env, "clientId").s,
                      clientSecret |-> Field(env, "clientSecret").s,
                      tld |-> Field(env, "tld").s]]

\* validateAndParseEnvironments: environments.map stops at the first throw
ValidateAndParse(value) ==
    IF value.t # "array"
    THEN [ok |-> FALSE, error |-> <<"environments.json must contain a JSON array">>]
    ELSE LET results == [i \in DOMAIN value.items |->
                            ValidateEnvironment(value.items[i], i - 1)]
             bad == {i \in DOMAIN results : ~results[i].ok}
         IN  IF bad = {}
             THEN [ok |-> TRUE, records |-> [i \in DOMAIN results |-> results[i].record]]
             ELSE [ok |-> FALSE,
                   error |-> results[CHOOSE i \in bad : \A j \in bad : i <= j].error]

\* the user writes environments.json
WriteEnvironments(value) ==
    /\ cfgpc = "idle"
    /\ environments' = value
    /\ UNCHANGED <<cfgpc, loaded, cfgError, tokVars, opVars, batchVars, platVars>>

\* loadConfig()
LoadConfig ==
    /\ cfgpc = "idle"
    /\ IF environments = NoEnvironmentsFile
       THEN /\ cfgpc' = "threw"
            /\ cfgError' = <<"Missing environments.json file">>
            /\ UNCHANGED loaded
       ELSE IF environments = UnparsableFile
       THEN /\ cfgpc' = "threw"
            /\ cfgError' = <<"Error reading environments.json: ", "Unexpected token">>
            /\ UNCHANGED loaded
       ELSE LET r == ValidateAndParse(environments)
            IN  IF r.ok
                THEN /\ cfgpc' = "returned"
                     /\ loaded' = r.records
                     /\ UNCHANGED cfgError
                ELSE /\ cfgpc' = "threw"
                     /\ cfgError' = <<"Error reading environments.json: ">> \o r.error
                     /\ UNCHANGED loaded
    /\ UNCHANGED <<environments, tokVars, opVars, batchVars, platVars>>

\* the caller has taken the records or the error
ConfigTaken ==
    /\ cfgpc \in {"returned", "threw"}
    /\ cfgpc' = "idle"
    /\ loaded' = <<>>
    /\ cfgError' = <<>>
    /\ UNCHANGED <<environments, tokVars, opVars, batchVars, platVars>>

(***************************************************************************)
(* Specifications                                                          *)
(***************************************************************************)
Init ==
    /\ now = 0
    /\ tokenCache = [k \in CacheKeys |-> NoEntry]
    /\ storedBy = [k \in CacheKeys |-> ""]
    /\ grants = [k \in CacheKeys |-> NoGrant]
    /\ auth = [s \in Slots |-> IdleAuth]
    /\ op = NoOp
    /\ oppc = "idle"
    /\ client = NoClient
    /\ config = NoConfig
    /\ sent = 0
    /\ delays = <<>>
    /\ failures = 0
    /\ lastResponse = NoResponseYet
    /\ forms = <<>>
    /\ served = <<>>
    /\ opResult = NoData
    /\ opError = <<>>
    /\ caught = PlainErr(<<>>)
    /\ followed = EmptyUrl
    /\ batch = NoBatch
    /\ bpc = "idle"
    /\ bi = 0
    /\ disk = [f \in Filenames |-> NoFile]
    /\ pending = NoPending
    /\ downloadedFiles = <<>>
    /\ formsWithData = <<>>
    /\ nameMap = [f \in Filenames |-> ""]
    /\ successful = <<>>
    /\ failed = <<>>
    /\ batchError = <<>>
    /\ started = <<>>
    /\ loads = [f \in Filenames |-> ""]
    /\ stored = InitialForms
    /\ accepted = [t \in Tenants |-> {}]
    /\ environments = NoEnvironmentsFile
    /\ cfgpc = "idle"
    /\ loaded = <<>>
    /\ cfgError = <<>>

\* the token manager on its own: sequential calls of getAccessToken
NextAuth ==
    \/ \E env \in Envs : GetAccessToken(1, env)
    \/ \E r \in TokenOutcomes : TokenResponse(1, r)
    \/ AuthDone(1)
    \/ \E d \in TickMs : Tick(d)

SpecAuth == Init /\ [][NextAuth]_vars

\* the payloads of uploadForm: cleaned forms under their final name
UploadPayloads ==
    { ("name" :> "Login" @@ "description" :> "sign-in" @@ "components" :> "fields-1"),
      ("name" :> "zebra" @@ "components" :> "fields-2") }

Operations ==
    {[kind |-> "listForms", env |-> e, formId |-> "", formData |-> NoData] : e \in Envs}
        \cup {[kind |-> "downloadForm", env |-> e, formId |-> i, formData |-> NoData] :
                 e \in Envs, i \in FormIds}
        \cup {[kind |-> "uploadForm", env |-> e, formId |-> "", formData |-> d] :
                 e \in Envs, d \in UploadPayloads}

\* the pages the platform can answer a page request of the listing with,
\* holding one of the given contents: the chain ends with the page number
\* MaxPages at the latest
PagesFor(o, contents) ==
    {Page(TRUE, c, n) : c \in contents,
                        n \in IF Len(served) + 1 < MaxPages THEN NextLinks(o.env)
                                                            ELSE {EmptyUrl}}
        \cup {Page(FALSE, <<>>, EmptyUrl)}

\* the created resource the platform answers a POST with
Created(formData) == formData @@ ("id" :> "f-new") @@ Metadata

\* the successful answers to the request in progress of operation o
Successes(o, contents) ==
    CASE o.kind = "listForms" -> {ApiOk(p) : p \in PagesFor(o, contents)}
      [] o.kind = "downloadForm" -> {ApiOk(f) : f \in {g \in RemoteForms : g["id"] = o.formId}}
      [] o.kind = "uploadForm" -> {ApiOk(Created(o.formData))}
      [] OTHER -> {}

OnePage == {<<f, g>> : f, g \in {h \in RemoteForms : h["id"] = "f-1"}}

\* single calls of the three resource operations, against every answer of
\* the token endpoint and of the API
Next ==
    \/ \E o \in Operations : now <= MaxStart /\ Call(o)
    \/ \E r \in TokenOutcomes : OpTokenResponse(r)
    \/ \E r \in Successes(op, OnePage) \cup ApiFailures : ApiResponse(r)
    \/ Resubmit
    \/ OpDone

Spec == Init /\ [][Next]_vars

\* the forms a page of a listing holds
PageContents ==
    LET F(i) == CHOOSE f \in RemoteForms : f["id"] = i
    IN  {<<>>, <<F("f-1")>>, <<F("f-2"), F("f-1")>>, <<F("f-3"), F("f-2")>>,
         <<F("f-1"), F("f-3")>>}

ListOutcomes ==
    {TokenOk("tokA", 40), TokenFail(AxiosErr(401, ""))}

ListFailures == {ApiFail(AxiosErr(429, "")), ApiFail(AxiosErr(404, "platform text"))}

\* listings of every chain of at most MaxPages pages
NextList ==
    \/ \E o \in {x \in Operations : x.kind = "listForms"} : now <= MaxStart /\ Call(o)
    \/ \E r \in ListOutcomes : OpTokenResponse(r)
    \/ \E r \in Successes(op, PageContents) \cup ListFailures : ApiResponse(r)
    \/ Resubmit
    \/ OpDone

SpecList == Init /\ [][NextList]_vars

\* the pages of a platform that puts no end to the chain: every page can carry
\* a next link, the one that led to it among them; the pages after the first
\* MaxPages hold no forms
PagesWithoutEnd(o) ==
    {Page(TRUE, c, n) : c \in IF Len(served) < MaxPages
                              THEN {pc \in PageContents : Len(pc) < 2}
                              ELSE {<<>>},
                        n \in NextLinks(o.env)}
        \cup {Page(FALSE, <<>>, EmptyUrl)}

\* a page of a listing arrives from a platform that puts no end to the chain,
\* or the request fails (with a retryable failure up to the time MaxNow)
EndlessResponse ==
    \E r \in {ApiOk(p) : p \in PagesWithoutEnd(op)}
              \cup {f \in ListFailures : now < MaxNow \/ ~RetryableStatus(f.error.status)} :
        op.kind = "listForms" /\ ApiResponse(r)

\* listings of Dev US against a platform that puts no end to the chain
NextEndless ==
    \/ \E o \in {x \in Operations : x.kind = "listForms" /\ x.env.name = "Dev US"} :
           now <= MaxStart /\ Call(o)
    \/ \E r \in ListOutcomes : OpTokenResponse(r)
    \/ EndlessResponse
    \/ Resubmit
    \/ OpDone

\* every request is answered, every backoff timer fires, every result is taken
SpecEndless ==
    /\ Init
    /\ [][NextEndless]_vars
    /\ WF_vars(\E r \in ListOutcomes : OpTokenResponse(r))
    /\ WF_vars(EndlessResponse)
    /\ WF_vars(Resubmit)
    /\ WF_vars(OpDone)

\* the platform keeps the form of the POST in progress and then answers it with
\* a failure status; a platform that requires unique names answers 409 to a
\* name it already holds and keeps nothing
StoresThenFails(status, unique) ==
    /\ oppc = "inflight"
    /\ config.method = "POST"
    /\ PostedTo(Addressed) # {}
    /\ LET t == CHOOSE x \in PostedTo(Addressed) : TRUE
       IN  IF (unique /\ NameTaken(t, Get(config.data, "name")))
                \/ Len(stored[t]) >= Len(NewIds)
           THEN /\ Respond(ApiFail(AxiosErr(409, "")))
                /\ UNCHANGED platVars
           ELSE /\ Respond(ApiFail(AxiosErr(status, "")))
                /\ stored' = [stored EXCEPT
                                 ![t] = Append(@, CreatedAs(config.data, NewIds[Len(@) + 1]))]
                /\ UNCHANGED accepted
    /\ UNCHANGED cfgVars

\* one uploadForm call that reaches the platform, the platform answering as it
\* is or keeping the form and failing the request
NextUpload ==
    \/ \E o \in {x \in Operations : x.kind = "uploadForm"} :
           stored = InitialForms /\ now <= MaxStart /\ Call(o)
    \/ \E r \in ListOutcomes : OpTokenResponse(r)
    \/ PlatformResponse("relative")
    \/ \E status \in {429, 503}, unique \in BOOLEAN : StoresThenFails(status, unique)
    \/ Resubmit
    \/ OpDone

SpecUpload == Init /\ [][NextUpload]_vars

\* the selections of at most MaxBatch items of a set, in every order
Selections(S) ==
    {sel \in UNION {[1..n -> S] : n \in 1..MaxBatch} :
        \A i, j \in DOMAIN sel : i # j => sel[i] # sel[j]}

BatchEnv == CHOOSE e \in Envs : e.name = "Dev US"

BatchTokenOutcomes == {TokenOk("tokA", 40), TokenFail(AxiosErr(401, ""))}

BatchFailures == {ApiFail(AxiosErr(503, "")), ApiFail(AxiosErr(404, "platform text"))}

\* exports of selections of the forms of the platform, into a directory that
\* holds any of the files already
InitExport ==
    /\ now = 0
    /\ tokenCache = [k \in CacheKeys |-> NoEntry]
    /\ storedBy = [k \in CacheKeys |-> ""]
    /\ grants = [k \in CacheKeys |-> NoGrant]
    /\ auth = [s \in Slots |-> IdleAuth]
    /\ op = NoOp
    /\ oppc = "idle"
    /\ client = NoClient
    /\ config = NoConfig
    /\ sent = 0
    /\ delays = <<>>
    /\ failures = 0
    /\ lastResponse = NoResponseYet
    /\ forms = <<>>
    /\ served = <<>>
    /\ opResult = NoData
    /\ opError = <<>>
    /\ caught = PlainErr(<<>>)
    /\ followed = EmptyUrl
    /\ batch = NoBatch
    /\ bpc = "idle"
    /\ bi = 0
    /\ disk \in [Filenames -> {NoFile, FileOf("name" :> "old")}]
    /\ pending = NoPending
    /\ downloadedFiles = <<>>
    /\ formsWithData = <<>>
    /\ nameMap = [f \in Filenames |-> ""]
    /\ successful = <<>>
    /\ failed = <<>>
    /\ batchError = <<>>
    /\ started = <<>>
    /\ loads = [f \in Filenames |-> ""]
    /\ stored = InitialForms
    /\ accepted = [t \in Tenants |-> {}]
    /\ environments = NoEnvironmentsFile
    /\ cfgpc = "idle"
    /\ loaded = <<>>
    /\ cfgError = <<>>

NextExport ==
    \/ \E sel \in Selections({SummaryOf(f) : f \in RemoteForms}) :
          now <= MaxStart /\ DownloadForms(BatchEnv, sel)
    \/ ExportLoop
    \/ \E r \in BatchTokenOutcomes : OpTokenResponse(r)
    \/ \E r \in Successes(op, {}) \cup BatchFailures : ApiResponse(r)
    \/ Resubmit
    \/ DownloadEnded
    \/ FileChecked
    \/ \E b \in BOOLEAN : OverwriteAnswered(b)
    \/ \E ok \in BOOLEAN : WriteEnded(ok)
    \/ BatchDone

SpecExport == InitExport /\ [][NextExport]_vars

\* imports of selections of the files of a directory that holds the cleaned
\* forms of the platform
InitImport ==
    /\ now = 0
    /\ tokenCache = [k \in CacheKeys |-> NoEntry]
    /\ storedBy = [k \in CacheKeys |-> ""]
    /\ grants = [k \in CacheKeys |-> NoGrant]
    /\ auth = [s \in Slots |-> IdleAuth]
    /\ op = NoOp
    /\ oppc = "idle"
    /\ client = NoClient
    /\ config = NoConfig
    /\ sent = 0
    /\ delays = <<>>
    /\ failures = 0
    /\ lastResponse = NoResponseYet
    /\ forms = <<>>
    /\ served = <<>>
    /\ opResult = NoData
    /\ opError = <<>>
    /\ caught = PlainErr(<<>>)
    /\ followed = EmptyUrl
    /\ batch = NoBatch
    /\ bpc = "idle"
    /\ bi = 0
    /\ disk = [fn \in Filenames |->
                 FileOf(transformFormForExport(
                            CHOOSE f \in RemoteForms : FilenameOf(f["name"]) = fn))]
    /\ pending = NoPending
    /\ downloadedFiles = <<>>
    /\ formsWithData = <<>>
    /\ nameMap = [f \in Filenames |-> ""]
    /\ successful = <<>>
    /\ failed = <<>>
    /\ batchError = <<>>
    /\ started = <<>>
    /\ loads = [f \in Filenames |-> ""]
    /\ stored = InitialForms
    /\ accepted = [t \in Tenants |-> {}]
    /\ environments = NoEnvironmentsFile
    /\ cfgpc = "idle"
    /\ loaded = <<>>
    /\ cfgError = <<>>

EnteredNames == {"Login", "zebra"}

NextImport ==
    \/ \E sel \in Selections({LocalFormFile(fn) : fn \in Filenames}) :
          now <= MaxStart /\ UploadForms(BatchEnv, sel)
    \/ \E ok \in BOOLEAN : LoadEnded(ok)
    \/ \E n \in EnteredNames : NameEntered(n)
    \/ ImportLoop
    \/ \E r \in BatchTokenOutcomes : OpTokenResponse(r)
    \/ \E r \in Successes(op, {}) \cup BatchFailures : ApiResponse(r)
    \/ Resubmit
    \/ UploadEnded
    \/ BatchDone

SpecImport == InitImport /\ [][NextImport]_vars

\* exports and imports of the files of a directory that holds the cleaned
\* forms of the platform
NextBatch ==
    \/ \E sel \in Selections({SummaryOf(f) : f \in RemoteForms}) :
          now <= MaxStart /\ DownloadForms(BatchEnv, sel)
    \/ ExportLoop
    \/ DownloadEnded
    \/ FileChecked
    \/ \E b \in BOOLEAN : OverwriteAnswered(b)
    \/ \E ok \in BOOLEAN : WriteEnded(ok)
    \/ \E sel \in Selections({LocalFormFile(fn) : fn \in Filenames}) :
          now <= MaxStart /\ UploadForms(BatchEnv, sel)
    \/ \E ok \in BOOLEAN : LoadEnded(ok)
    \/ \E n \in EnteredNames : NameEntered(n)
    \/ ImportLoop
    \/ UploadEnded
    \/ \E r \in BatchTokenOutcomes : OpTokenResponse(r)
    \/ \E r \in Successes(op, {}) \cup BatchFailures : ApiResponse(r)
    \/ Resubmit
    \/ BatchDone

SpecBatch == InitImport /\ [][NextBatch]_vars

SourceEnv == CHOOSE e \in Envs : e.name = "Dev US"

TargetEnv == CHOOSE e \in Envs : e.name = "Prod"

\* the forms of SourceEnv are exported into an empty directory, the files are
\* imported into TargetEnv, and TargetEnv is listed
InitRoundTrip ==
    /\ InitExport
    /\ disk = [f \in Filenames |-> NoFile]

NextRoundTrip ==
    \/ \E sel \in Selections({SummaryOf(f) : f \in RemoteForms}) :
          DownloadForms(SourceEnv, sel)
    \/ ExportLoop
    \/ DownloadEnded
    \/ FileChecked
    \/ \E b \in BOOLEAN : OverwriteAnswered(b)
    \/ WriteEnded(TRUE)
    \/ \E sel \in Selections({LocalFormFile(fn) : fn \in {f \in Filenames : disk[f].present}}) :
          UploadForms(TargetEnv, sel)
    \/ LoadEnded(TRUE)
    \/ \E n \in EnteredNames : NameEntered(n)
    \/ ImportLoop
    \/ UploadEnded
    \/ Call([kind |-> "listForms", env |-> TargetEnv, formId |-> "", formData |-> NoData])
    \/ OpTokenResponse(TokenOk("tokA", 40))
    \/ \E style \in {"relative", "absolute"} : PlatformResponse(style)
    \/ OpDone
    \/ BatchDone

SpecRoundTrip == InitRoundTrip /\ [][NextRoundTrip]_vars

Rep(c, n) == [i \in 1..n |-> c]

\* a string of the shape of a UUID made of the character c
UuidOf(c) ==
    Rep(c, 8) \o <<"-">> \o Rep(c, 4) \o <<"-">> \o Rep(c, 4) \o <<"-">> \o Rep(c, 4)
        \o <<"-">> \o Rep(c, 12)

IdValues ==
    {Str(UuidOf("a")), Str(UuidOf("F")), Str(UuidOf("g")), Str(Tail(UuidOf("1"))),
     Str(<<"c", "1">>), Num(7)}

NameValues == {Str(<<"D", "e", "v">>), Str(<<>>), Null}

TldValues == {Str(<<"c", "o", "m">>), Str(<<"c", "o", "m", ".", "a", "u">>),
              Str(<<"u", "s">>), Num(0)}

\* the entries of environments.json: objects with every value of each field,
\* objects without one of the fields, and values that are not objects
ConfigEntries ==
    {Obj([k \in {"name", "envId", "clientId", "clientSecret", "tld"} |->
             CASE k = "name" -> n
               [] k = "envId" -> e
               [] k = "clientId" -> c
               [] k = "clientSecret" -> Str(<<"s">>)
               [] k = "tld" -> t]) :
         n \in NameValues, e \in IdValues, c \in IdValues, t \in TldValues}
        \cup {Obj([k \in {"name", "envId", "clientId", "tld"} |->
                      Str(IF k = "tld" THEN <<"e", "u">> ELSE UuidOf("b"))]),
              Null, Str(<<"x">>)}

ValidEntry ==
    Obj([k \in {"name", "envId", "clientId", "clientSecret", "tld"} |->
            Str(IF k = "tld" THEN <<"s", "g">> ELSE UuidOf("0"))])

\* the files with one entry, or with a valid entry and another
EnvironmentsFiles ==
    {NoEnvironmentsFile, UnparsableFile, Obj(<<>>), Arr(<<>>)}
        \cup {Arr(<<e>>) : e \in ConfigEntries}
        \cup {Arr(<<ValidEntry, e>>) : e \in ConfigEntries}
        \cup {Arr(<<e, ValidEntry>>) : e \in ConfigEntries}

\* loadConfig over the files the user can have written
NextConfig ==
    \/ \E v \in EnvironmentsFiles : WriteEnvironments(v)
    \/ LoadConfig
    \/ ConfigTaken

SpecConfig == Init /\ [][NextConfig]_vars

\* tokens that live 5 seconds, shorter than the backoff of one request
ShortLived == {TokenOk("tokA", 5), TokenOk("tokB", 5)}

ExpiryFailures == {ApiFail(AxiosErr(503, "")), ApiFail(AxiosErr(401, ""))}

\* operations on one environment whose token expires while they retry
NextExpiry ==
    \/ \E o \in {x \in Operations : x.env = BatchEnv} : now <= TOKEN_BUFFER_MS /\ Call(o)
    \/ \E r \in ShortLived : OpTokenResponse(r)
    \/ \E r \in Successes(op, OnePage) \cup ExpiryFailures : ApiResponse(r)
    \/ Resubmit
    \/ OpDone

SpecExpiry == Init /\ [][NextExpiry]_vars

ConcurrentOutcomes ==
    {TokenOk("tokA", 30), TokenOk("tokB", 40), TokenFail(AxiosErr(401, ""))}

\* getAccessToken calls of any credentials, two of them at a time, each
\* suspended at its token request
NextConcurrent ==
    \/ \E s \in Slots, env \in Envs : GetAccessToken(s, env)
    \/ \E s \in Slots, r \in ConcurrentOutcomes : TokenResponse(s, r)
    \/ \E s \in Slots : AuthDone(s)
    \/ \E d \in TickMs : Tick(d)

SpecConcurrent == Init /\ [][NextConcurrent]_vars

(***************************************************************************)
(* Properties of the token manager                                         *)
(***************************************************************************)
\* a step in which getAccessToken is called in slot s
AuthCalled(s) == auth[s].pc = "idle" /\ auth'[s].pc # "idle"

\* a step in which the call in slot s ends with what the token endpoint said
AuthAnswered(s) == auth[s].pc = "waiting" /\ auth'[s].pc # "waiting"

\* C1: a call of getAccessToken that finds an entry for the credential's
\* (envId, clientId) with expiresAt - now > 30000 returns the cached token and
\* sends no token request; every other call (no entry, or expiresAt - now <=
\* 30000) sends exactly one token request, and no call sends a second one.
C1_CacheDecidesRequest ==
    [][\A s \in Slots :
          /\ AuthCalled(s) =>
                LET e == tokenCache[CacheKey(auth'[s].env)]
                IN  IF e.present /\ e.expiresAt - now > 30000
                    THEN /\ auth'[s].pc = "returned"
                         /\ auth'[s].result = e.token
                         /\ auth'[s].sent = 0
                    ELSE /\ auth'[s].pc = "waiting"
                         /\ auth'[s].sent = 1
          /\ ~AuthCalled(s) /\ auth'[s].pc # "idle" => auth'[s].sent = auth[s].sent]_vars

\* a call was answered from an entry with more than 30000 ms left
C1_Witness ==
    /\ auth[1].pc = "returned"
    /\ auth[1].sent = 0
    /\ tokenCache[CacheKey(auth[1].env)].expiresAt - now > 30000

\* C10: the token of a successful exchange is stored in the entry that every
\* credential with the same envId and clientId reads, whatever its name: a
\* call with such a second credential while that entry has more than 30000 ms
\* left returns the token the first one's exchange stored and sends no request.
C10_SharedEntry ==
    [][\A s \in Slots :
          /\ AuthAnswered(s) /\ auth'[s].pc = "returned" =>
                \A e2 \in Envs :
                    e2.envId = auth[s].env.envId /\ e2.clientId = auth[s].env.clientId
                        => /\ tokenCache'[CacheKey(e2)].token = auth'[s].result
                           /\ storedBy'[CacheKey(e2)] = auth[s].env.name
          /\ AuthCalled(s) =>
                \A e1 \in Envs :
                    /\ e1.envId = auth'[s].env.envId
                    /\ e1.clientId = auth'[s].env.clientId
                    /\ e1.name # auth'[s].env.name
                    /\ storedBy[CacheKey(e1)] = e1.name
                    /\ tokenCache[CacheKey(e1)].expiresAt - now > 30000
                    => /\ auth'[s].pc = "returned"
                       /\ auth'[s].result = tokenCache[CacheKey(e1)].token
                       /\ auth'[s].sent = 0]_vars

\* "Dev EU" was given, without a request, the token "Dev US" had exchanged
C10_Witness ==
    /\ auth[1].pc = "returned"
    /\ auth[1].sent = 0
    /\ auth[1].env.name = "Dev EU"
    /\ storedBy[CacheKey(auth[1].env)] = "Dev US"
    /\ auth[1].result = tokenCache[CacheKey(auth[1].env)].token

\* C7: a failed token exchange is classified by what the transport returned:
\* 401 is "invalid client credentials", 403 is "insufficient permissions", any
\* other status is the generic "failed to authenticate" error with the
\* platform's description when there is one, and a failure without any HTTP
\* response is the "network error".
C7_TokenFailureClassified ==
    \A s \in Slots :
        auth[s].pc = "threw" =>
            LET c == auth[s].cause
                name == auth[s].env.name
            IN  /\ c.hasResponse /\ c.status = 401 =>
                    auth[s].error = <<"Authentication failed for ", name,
                                       ": Invalid client credentials">>
                /\ c.hasResponse /\ c.status = 403 =>
                    auth[s].error = <<"Access denied for ", name,
                                       ": Insufficient permissions">>
                /\ c.hasResponse /\ c.status \notin {401, 403} =>
                    /\ SubSeq(auth[s].error, 1, 3) = <<"Failed to authenticate with ", name, ": ">>
                    /\ c.text # "" => auth[s].error[4] = c.text
                /\ ~c.hasResponse =>
                    auth[s].error = <<"Network error while authenticating with ", name>>

(***************************************************************************)
(* Properties of the retrying client                                       *)
(***************************************************************************)
\* the failure is one the retry layer is there for: 429, or a status >= 500
IsRetryable(r) ==
    r.kind = "fail" /\ r.error.hasResponse /\ (r.error.status = 429 \/ r.error.status >= 500)

\* C2: the first three retryable failures of a request are each followed by a
\* backoff, of 1000, 2000 and 4000 ms; a success of the fourth attempt is what
\* the caller receives; a fourth retryable failure reaches the caller as the
\* error, and no request is ever sent a fifth time.
C2_ThreeRetriesThenTerminal ==
    /\ sent <= 4
    /\ IsRetryable(lastResponse) /\ failures <= 3 =>
            /\ oppc = "backoff"
            /\ sent = failures
            /\ delays = SubSeq(<<1000, 2000, 4000>>, 1, failures)
    /\ lastResponse.kind = "ok" /\ failures = 3 =>
            /\ oppc = "returned"
            /\ sent = 4
            /\ delays = <<1000, 2000, 4000>>
            /\ op.kind \in {"downloadForm", "uploadForm"} => opResult = lastResponse.data
            /\ op.kind = "listForms" =>
                    served[Len(served)] = IF lastResponse.data.hasForms
                                          THEN lastResponse.data.forms ELSE <<>>
    /\ failures = 4 =>
            /\ IsRetryable(lastResponse)
            /\ oppc = "threw"
            /\ caught = lastResponse.error
            /\ sent = 4
            /\ delays = <<1000, 2000, 4000>>

\* the fourth attempt of a download succeeded after three retryable failures
C2_Witness ==
    /\ op.kind = "downloadForm"
    /\ oppc = "returned"
    /\ failures = 3
    /\ lastResponse.kind = "ok"

\* C3: a failure that is not retryable (a status other than 429 and below 500,
\* or no response at all) is never followed by a delay or a resubmission,
\* whatever the retry counter of the request: the same error reaches the
\* caller, and the request has been sent once per earlier retryable failure
\* plus once.
C3_NonRetryableNeverRetried ==
    lastResponse.kind = "fail" /\ ~IsRetryable(lastResponse) =>
        /\ oppc = "threw"
        /\ caught = lastResponse.error
        /\ sent = failures + 1
        /\ Len(delays) = failures

\* a 404 and a failure without response, each after two retries
C3_Witness ==
    /\ oppc = "threw"
    /\ config.retryCount = 2
    /\ lastResponse.kind = "fail"
    /\ lastResponse.error.hasResponse
    /\ lastResponse.error.status = 404

(***************************************************************************)
(* Properties of the error messages of the resource operations             *)
(***************************************************************************)
\* the operation threw for an HTTP response with this status
ThrewOnStatus(kind, status) ==
    /\ oppc = "threw"
    /\ op.kind = kind
    /\ caught.axios
    /\ caught.hasResponse
    /\ caught.status = status

\* the generic API error of the operation, with the platform's message when
\* the response carried one
IsGenericApiError ==
    /\ opError[1] \in {"API error for ", "API error downloading form ",
                       "API error uploading form \""}
    /\ caught.text # "" => opError[Len(opError)] = caught.text

\* what the three operations do alike with the final status of a request
ClassifiedAlike ==
    \A kind \in {"listForms", "downloadForm", "uploadForm"} :
        /\ ThrewOnStatus(kind, 401) =>
              opError = <<"Authentication failed for ", op.env.name,
                          ": Token may have expired">>
        /\ ThrewOnStatus(kind, 403) =>
              /\ SubSeq(opError, 1, 2) = <<"Access denied for ", op.env.name>>
              /\ opError[3] = CASE kind = "listForms" ->
                                      ": Insufficient permissions to list forms"
                                 [] kind = "downloadForm" ->
                                      ": Insufficient permissions to download form "
                                 [] kind = "uploadForm" ->
                                      ": Insufficient permissions to upload forms"
        /\ ThrewOnStatus("downloadForm", 404) =>
              /\ opError[1] = "Form "
              /\ opError[3] = " not found in "
              /\ Contains(opError, op.formId)
        /\ ThrewOnStatus("uploadForm", 400) =>
              /\ opError[1] = "Invalid form data for \""
              /\ caught.text # "" => opError[Len(opError)] = caught.text
        /\ ThrewOnStatus("uploadForm", 409) =>
              /\ opError[1] = "Form \""
              /\ opError[3] = "\" already exists in "

\* the statuses with a message of their own, per operation, as the
\* classification table has them
OwnMessage(kind, status) ==
    \/ status \in {401, 403}
    \/ kind = "downloadForm" /\ status = 404
    \/ kind = "uploadForm" /\ status \in {400, 409}

\* C5 as stated: 401, 403, 404 of a download, 400 and 409 of an upload have
\* their own error, and every other final status of the three operations
\* gives the generic API error with the platform's message.
C5_AsStated ==
    /\ ClassifiedAlike
    /\ \A kind \in {"listForms", "downloadForm", "uploadForm"}, st \in Statuses :
          ThrewOnStatus(kind, st) /\ ~OwnMessage(kind, st) => IsGenericApiError

\* C5, amended: as stated, except that a 404 of listForms has its own "forms
\* endpoint not found" error too, which names the environment and does not
\* carry the platform's message.
C5_StatusClassified ==
    /\ ClassifiedAlike
    /\ ThrewOnStatus("listForms", 404) =>
          opError = <<"Forms endpoint not found for ", op.env.name>>
    /\ \A kind \in {"listForms", "downloadForm", "uploadForm"}, st \in Statuses :
          /\ ThrewOnStatus(kind, st)
          /\ ~OwnMessage(kind, st)
          /\ ~(kind = "listForms" /\ st = 404)
          => IsGenericApiError

\* listForms threw on a 404 whose response carried a message of the platform
C5_Witness ==
    /\ ThrewOnStatus("listForms", 404)
    /\ caught.text # ""

\* C6: the message of every error of getAccessToken, listForms, downloadForm
\* and uploadForm contains the display name of the credential of the call.
C6_ErrorsNameEnvironment ==
    /\ \A s \in Slots : auth[s].pc = "threw" => Contains(auth[s].error, auth[s].env.name)
    /\ oppc = "threw" => Contains(opError, op.env.name)

(***************************************************************************)
(* Properties of listForms                                                 *)
(***************************************************************************)
RECURSIVE Flatten(_)
Flatten(ss) == IF ss = <<>> THEN <<>> ELSE ss[1] \o Flatten(Tail(ss))

Count(seq, x) == Cardinality({i \in DOMAIN seq : seq[i] = x})

\* the summary of a form of the platform: its id, name and description
Summary(f) ==
    [id |-> f["id"], name |-> f["name"],
     description |-> IF "description" \in DOMAIN f THEN f["description"] ELSE Undefined]

\* C4: when every page request of a listing has succeeded, listForms returns
\* the summaries of the forms of all the pages it was served, each as often as
\* the pages hold it, and nothing else, ordered by name.
C4_AllPagesOnceSorted ==
    op.kind = "listForms" /\ oppc = "returned" =>
        LET all == Flatten(served)
        IN  /\ Len(opResult) = Len(all)
            /\ \A f \in RemoteForms : Count(opResult, Summary(f)) = Count(all, f)
            /\ \A i, j \in DOMAIN opResult :
                   i < j => LocaleCompare(opResult[i].name, opResult[j].name) <= 0

\* pages of 2, 2 and 1 forms, the second reached by a relative link or the
\* first request, the last one by an absolute link
C4_Witness ==
    /\ op.kind = "listForms"
    /\ oppc = "returned"
    /\ Len(served) = 3
    /\ Len(served[1]) = 2
    /\ Len(served[2]) = 2
    /\ Len(served[3]) = 1
    /\ Len(opResult) = 5
    /\ config.url.path[1] = "v1"

(***************************************************************************)
(* Properties of the batches                                               *)
(***************************************************************************)
\* C8: in an export, a failure to download or to save one form does not abort
\* the batch: when downloadForms ends, every selected form was downloaded
C8_FailureDoesNotAbortExport ==
    (batch.kind = "export" /\ bpc \in {"done", "threw"}) =>
        started = [i \in DOMAIN batch.items |-> batch.items[i].id]

\* the filenames of the list failed
FailedNames == [i \in DOMAIN failed |-> failed[i].filename]

\* C9: in an import, a file whose load failed is never uploaded and a file
\* that loaded is uploaded once whatever failed before it; when uploadForms
\* returns, every selected filename is once in one of successful and failed,
\* in successful if and only if its upload returned without error
C9_EveryFileSettledOnce ==
    batch.kind = "import" =>
        \A i \in DOMAIN batch.items :
            LET filename == batch.items[i].filename
            IN  /\ loads[filename] = "failed" => Count(started, filename) = 0
                /\ Count(started, filename) <= 1
                /\ bpc = "done" =>
                      /\ loads[filename] \in {"failed", "uploaded", "rejected"}
                      /\ loads[filename] # "failed" => Count(started, filename) = 1
                      /\ Count(successful, filename) + Count(FailedNames, filename) = 1
                      /\ Count(successful, filename) = 1 <=> loads[filename] = "uploaded"

\* an import of three files returned: the load of the first failed, the upload
\* of the second failed, and the third was uploaded after that
C9_Witness ==
    /\ batch.kind = "import"
    /\ bpc = "done"
    /\ Len(batch.items) = 3
    /\ loads[batch.items[1].filename] = "failed"
    /\ loads[batch.items[2].filename] = "rejected"
    /\ loads[batch.items[3].filename] = "uploaded"
    /\ started = <<batch.items[2].filename, batch.items[3].filename>>
    /\ successful = <<batch.items[3].filename>>
    /\ FailedNames = <<batch.items[1].filename, batch.items[2].filename>>

(***************************************************************************)
(* Properties of the retry budget of a request                             *)
(***************************************************************************)
RECURSIVE SumSeq(_)
SumSeq(seq) == IF seq = <<>> THEN 0 ELSE seq[1] + SumSeq(Tail(seq))

\* the step leaves the request in progress the same logical request: no new
\* request was made by the operation
SameRequest ==
    /\ oppc \in {"inflight", "backoff"}
    /\ oppc' \in {"inflight", "backoff", "threw", "returned"}
    /\ op' = op
    /\ served' = served

\* C11: the retry counter of a request is always in 0..3 and never decreases
\* while the request lives, the request is sent at most 4 times, and the
\* backoff delays injected for it sum to at most 7000 ms
C11_RetryBudget ==
    /\ [](/\ config.retryCount \in 0..3
          /\ sent <= 4
          /\ sent <= config.retryCount + 1
          /\ SumSeq(delays) <= 7000)
    /\ [][SameRequest => config'.retryCount >= config.retryCount]_vars

\* a request used its whole budget: three retries, four submissions, 7000 ms
C11_Witness ==
    /\ oppc = "threw"
    /\ config.retryCount = 3
    /\ sent = 4
    /\ SumSeq(delays) = 7000
    /\ IsRetryable(lastResponse)

(***************************************************************************)
(* Properties of the order of a batch                                      *)
(***************************************************************************)
\* the resources of the batch in progress in the order their operations are
\* to start: the selected forms of an export, the loaded files of an import
InOrder ==
    IF batch.kind = "export"
    THEN [i \in DOMAIN batch.items |-> batch.items[i].id]
    ELSE [i \in DOMAIN formsWithData |-> formsWithData[i].localForm.filename]

\* the position of a file in the selection
PositionOf(filename) ==
    CHOOSE i \in DOMAIN batch.items : batch.items[i].filename = filename

\* C12: within an export or an import the operations start one at a time in
\* the order presented: an operation starts only when no operation is in
\* progress, it is the one of the resource that follows the resources already
\* handled, and the loaded files of an import keep the order of the selection
C12_OneAtATimeInOrder ==
    /\ [](batch.kind \in {"export", "import"} =>
            /\ Len(started) <= Len(InOrder)
            /\ started = SubSeq(InOrder, 1, Len(started))
            /\ oppc # "idle" => /\ started # <<>>
                                /\ bpc \in {"downloading", "uploading"}
            /\ batch.kind = "import" =>
                  \A i, j \in DOMAIN formsWithData :
                      i < j => PositionOf(formsWithData[i].localForm.filename)
                                   < PositionOf(formsWithData[j].localForm.filename))
    /\ [][started' # started /\ started' # <<>> =>
             /\ oppc = "idle"
             /\ oppc' # "idle"
             /\ Len(started') = Len(started) + 1
             /\ started' = SubSeq(InOrder, 1, Len(started'))
             /\ batch.kind = "export" => op'.formId = started'[Len(started')]
             /\ batch.kind = "import" =>
                   op'.formData = WithName(formsWithData[Len(started')].formData,
                                           FormNameFor(formsWithData[Len(started')]))]_vars

\* the third download of an export started after the second needed a retry
C12_Witness ==
    /\ batch.kind = "export"
    /\ Len(batch.items) = 3
    /\ Len(started) = 3
    /\ oppc = "inflight"
    /\ now > 0
    /\ op.formId = batch.items[3].id

(***************************************************************************)
(* Properties of a failed token exchange                                   *)
(***************************************************************************)
\* C13: a failed token exchange is not retried and ends the operation that
\* asked for the token: getAccessToken has sent one token request when it
\* throws, whatever the failure, and the operation throws without a client and
\* without any API request
C13_TokenFailureTerminal ==
    /\ [](/\ \A s \in Slots : /\ auth[s].sent <= 1
                              /\ auth[s].pc = "threw" => auth[s].sent = 1
          /\ oppc = "threw" /\ sent = 0 =>
                /\ auth[1].pc = "threw"
                /\ caught = PlainErr(auth[1].error)
          /\ auth[1].pc = "threw" =>
                /\ oppc = "threw"
                /\ sent = 0
                /\ client = NoClient
                /\ config = NoConfig
                /\ delays = <<>>)
    /\ [][auth[1].pc = "threw" => oppc' = "idle" /\ auth'[1].pc = "idle"]_vars

\* an upload ended on a token request answered with 503
C13_Witness ==
    /\ op.kind = "uploadForm"
    /\ oppc = "threw"
    /\ auth[1].pc = "threw"
    /\ auth[1].cause.hasResponse
    /\ auth[1].cause.status = 503
    /\ auth[1].sent = 1
    /\ sent = 0

(***************************************************************************)
(* Properties of the round trip                                            *)
(***************************************************************************)
\* C14: after forms downloaded from one environment and cleaned were uploaded
\* to another under the names given, a listing of that environment returns a
\* list that has a summary with each of these names
C14_RoundTrip ==
    (op.kind = "listForms" /\ oppc \in {"returned", "threw"}) =>
        /\ oppc = "returned"
        /\ \A n \in accepted[TenantOf(op.env)] :
              \E i \in DOMAIN opResult : opResult[i].name = n

(***************************************************************************)
(* Properties of the exported payload                                      *)
(***************************************************************************)
FiveFields == {"_links", "id", "environment", "created", "modified"}

\* C15: the payload an export saves is the downloaded form without its
\* top-level fields _links, id, environment, created and modified: none of
\* the five is in it, every other field of the downloaded form is in it with
\* the same value, the downloaded object is as it was downloaded, and the file
\* written holds that payload
C15_ExportedPayload ==
    /\ [][bpc = "downloading" /\ bpc' = "saving" =>
             /\ pending'.raw = opResult
             /\ DOMAIN pending'.data \cap FiveFields = {}
             /\ DOMAIN pending'.data = DOMAIN opResult \ FiveFields
             /\ \A k \in DOMAIN pending'.data : pending'.data[k] = opResult[k]]_vars
    /\ [][bpc = "writing" /\ bpc' = "loop" =>
             /\ disk'[pending.filename] = [present |-> TRUE, data |-> pending.data]
             /\ DOMAIN pending.data = DOMAIN pending.raw \ FiveFields
             /\ \A k \in DOMAIN pending.data : pending.data[k] = pending.raw[k]]_vars

\* the file of "Log In!" was written: the downloaded form had the five fields
\* and three more
C15_Witness ==
    /\ batch.kind = "export"
    /\ bpc = "loop"
    /\ downloadedFiles # <<>>
    /\ disk[FilenameOf("Log In!")].present
    /\ DOMAIN disk[FilenameOf("Log In!")].data = {"name", "description", "components"}
    /\ disk[FilenameOf("Log In!")].data["name"] = "Log In!"

(***************************************************************************)
(* Properties of the configuration                                         *)
(***************************************************************************)
\* the entry is an object whose five fields are as the specification of the
\* credential store wants them
WellFormedEntry(e) ==
    /\ e.t = "object"
    /\ \A k \in {"name", "envId", "clientId", "clientSecret", "tld"} :
          /\ k \in DOMAIN e.fields
          /\ e.fields[k].t = "string"
          /\ e.fields[k].s # <<>>
    /\ MatchesUuid(e.fields["envId"].s)
    /\ MatchesUuid(e.fields["clientId"].s)
    /\ e.fields["tld"].s \in VALID_TLDS

\* C16: every record loadConfig returns has a non-empty name and secret, an
\* envId and a clientId in UUID format and one of the six region suffixes; if
\* an entry of the configuration is not so, loadConfig throws and returns no
\* record
C16_OnlyValidatedRecords ==
    /\ cfgpc = "returned" =>
          /\ environments.t = "array"
          /\ \A i \in DOMAIN environments.items : WellFormedEntry(environments.items[i])
          /\ \A i \in DOMAIN loaded :
                /\ loaded[i].name # <<>>
                /\ loaded[i].clientSecret # <<>>
                /\ MatchesUuid(loaded[i].envId)
                /\ MatchesUuid(loaded[i].clientId)
                /\ loaded[i].tld \in VALID_TLDS
    /\ cfgpc = "threw" => loaded = <<>>

(***************************************************************************)
(* Properties of a resubmission                                            *)
(***************************************************************************)
\* C17: a retry increments the counter and then suspends the operation for
\* 1000 * 2^(counter - 1) ms, so for 1000, 2000 and 4000 ms before the first,
\* second and third resubmission; the resubmission is not sent before the
\* delay has elapsed, and it is the same request (method, URL, body, bearer
\* token) through the same client
C17_BackoffThenSameRequest ==
    /\ [][oppc = "inflight" /\ oppc' = "backoff" =>
             /\ config' = [config EXCEPT !.retryCount = config.retryCount + 1]
             /\ delays' = Append(delays, 1000 * 2 ^ (config'.retryCount - 1))
             /\ delays'[Len(delays')] = <<1000, 2000, 4000>>[config'.retryCount]
             /\ sent' = sent
             /\ client' = client]_vars
    /\ [][oppc = "backoff" /\ oppc' = "inflight" =>
             /\ sent' = sent + 1
             /\ sent = config.retryCount
             /\ now' - now >= <<1000, 2000, 4000>>[sent]
             /\ config'.method = config.method
             /\ config'.url = config.url
             /\ config'.data = config.data
             /\ config'.token = config.token
             /\ config'.retryCount = config.retryCount
             /\ client' = client
             /\ op' = op]_vars
    /\ [](oppc = "backoff" => Len(delays) = config.retryCount /\ sent = config.retryCount)

\* the third resubmission of an upload is in flight, 7000 ms after the call
C17_Witness ==
    /\ op.kind = "uploadForm"
    /\ oppc = "inflight"
    /\ sent = 4
    /\ config.retryCount = 3
    /\ config.method = "POST"
    /\ config.data = op.formData
    /\ delays = <<1000, 2000, 4000>>
    /\ now = 7000

(***************************************************************************)
(* Properties of the retry counters of different requests                  *)
(***************************************************************************)
\* the step makes a new request: the first of an operation, or the request of
\* the next page of a listing
MakesRequest ==
    /\ oppc' = "inflight"
    /\ \/ oppc \in {"idle", "auth"}
       \/ oppc = "inflight" /\ Len(served') > Len(served)

RelativeLinkAsGiven ==
    (op.kind = "listForms" /\ oppc \in {"inflight", "backoff"}
        /\ followed # EmptyUrl /\ ~IsAbsolute(followed)) => config.url = followed

\* C19: the request of the next page addresses the URL of the next link: an
\* absolute link under the base URL of the client is addressed at its host,
\* path and query by the base URL joined with the url the link was converted
\* to, and a relative link is requested as given
C19_NextLinkAddressed ==
    (op.kind = "listForms" /\ oppc \in {"inflight", "backoff"} /\ followed # EmptyUrl) =>
        IF IsAbsolute(followed)
        THEN FullUrl(client.baseURL, config.url) = followed
        ELSE config.url = followed

(***************************************************************************)
(* Properties of the network error of the resource operations              *)
(***************************************************************************)
\* the operation threw its "network error"
IsNetworkError ==
    opError[1] \in {"Network error while fetching forms from ",
                    "Network error while downloading form ",
                    "Network error while uploading form \""}

\* what the transport threw for the request that failed: the token request of
\* the operation, or its API request
FailedTransport == IF auth[1].pc = "threw" THEN auth[1].cause ELSE caught

\* C20: an operation throws its network error exactly when the request that
\* failed received no HTTP response; a token exchange of the operation that
\* was answered 401 or 403 reaches the caller as the authentication or the
\* authorization error
C20_NetworkErrorIffNoResponse ==
    oppc = "threw" =>
        /\ IsNetworkError <=> ~FailedTransport.hasResponse
        /\ auth[1].pc = "threw" /\ auth[1].cause.hasResponse /\ auth[1].cause.status = 401
              => opError[1] = "Authentication failed for "
        /\ auth[1].pc = "threw" /\ auth[1].cause.hasResponse /\ auth[1].cause.status = 403
              => opError[1] = "Access denied for "

(***************************************************************************)
(* Properties of the token of an operation                                 *)
(***************************************************************************)
\* C21: an operation calls getAccessToken once, before its first API request,
\* and every API request of the call, each page request and each resubmission
\* included, carries the token that call returned: nothing asks for a token
\* again during the call, not after the expiry of the token and not after an
\* answer of 401
C21_OneTokenPerCall ==
    /\ [](oppc \in {"inflight", "backoff"} =>
             /\ auth[1].pc = "returned"
             /\ auth[1].sent <= 1
             /\ client.token = auth[1].result
             /\ config.token = client.token)
    /\ [](oppc = "auth" => sent = 0 /\ config = NoConfig)
    /\ [][(oppc' # "idle" /\ oppc \in {"inflight", "backoff"}) =>
             /\ auth' = auth
             /\ tokenCache' = tokenCache
             /\ config'.token = config.token
             /\ client' = client]_vars
    /\ [][auth'[1].pc # "idle" /\ auth[1].pc = "idle" => oppc = "idle" /\ sent = 0]_vars

\* the second page of a listing was answered 401 after three retries, 2 seconds
\* after the expiry of the token the requests carried
C21_Witness ==
    /\ op.kind = "listForms"
    /\ oppc = "threw"
    /\ Len(served) = 1
    /\ caught.hasResponse
    /\ caught.status = 401
    /\ config.token = auth[1].result
    /\ tokenCache[CacheKey(op.env)].token = config.token
    /\ now = 7000
    /\ now > tokenCache[CacheKey(op.env)].expiresAt

(***************************************************************************)
(* Properties of the entry a successful exchange stores                    *)
(***************************************************************************)
\* C22: a successful exchange answered with (access_token, expires_in) at the
\* clock value t leaves at the key of the credential exactly the entry
\* (access_token, t + expires_in * 1000), whatever was there, and returns that
\* access_token; so an entry made from a response with expires_in <= 30 never
\* saves a later call its exchange
C22_EntryOfExchange ==
    [][\A s \in Slots :
          /\ AuthAnswered(s) /\ auth'[s].pc = "returned" =>
                LET k == CacheKey(auth[s].env)
                    g == grants'[k]
                IN  /\ g.at = now
                    /\ tokenCache'[k] = [present |-> TRUE, token |-> g.access_token,
                                         expiresAt |-> now + g.expires_in * 1000]
                    /\ auth'[s].result = g.access_token
                    /\ \A k2 \in CacheKeys \ {k} : tokenCache'[k2] = tokenCache[k2]
          /\ AuthCalled(s) =>
                LET k == CacheKey(auth'[s].env)
                IN  tokenCache[k].present /\ grants[k].expires_in <= 30 =>
                        /\ auth'[s].pc = "waiting"
                        /\ auth'[s].sent = 1]_vars

\* an exchange answered at 10000 ms with (tokB, 30) left the entry
\* (tokB, 10000 + 30 * 1000) and returned tokB
C22_Witness ==
    /\ auth[1].pc = "returned"
    /\ auth[1].sent = 1
    /\ auth[1].result = "tokB"
    /\ now = 10000
    /\ auth[1].env.name = "Dev EU"
    /\ grants[CacheKey(auth[1].env)].expires_in = 30
    /\ grants[CacheKey(auth[1].env)].at = 10000
    /\ tokenCache[CacheKey(auth[1].env)] = [present |-> TRUE, token |-> "tokB", expiresAt |-> 40000]

(***************************************************************************)
(* Properties of the changes of the token cache                            *)
(***************************************************************************)
\* C23: the token cache changes only when a token exchange succeeds, and then
\* only at the key of that exchange: a failed exchange, a call answered from
\* the cache and every answer to an API request leave it as it is, and an
\* entry once set is never removed
C23_CacheChangesOnlyOnSuccess ==
    [][/\ tokenCache' # tokenCache =>
             \E s \in Slots :
                 /\ AuthAnswered(s)
                 /\ auth'[s].pc = "returned"
                 /\ \A k \in CacheKeys \ {CacheKey(auth[s].env)} :
                        tokenCache'[k] = tokenCache[k]
       /\ \A s \in Slots : AuthAnswered(s) /\ auth'[s].pc = "threw" => tokenCache' = tokenCache
       /\ \A k \in CacheKeys : tokenCache[k].present => tokenCache'[k].present]_vars

\* the exchange of an operation failed and the stale entry of the credential is
\* still in the cache
C23_Witness ==
    /\ oppc = "threw"
    /\ auth[1].pc = "threw"
    /\ tokenCache[CacheKey(op.env)].present
    /\ tokenCache[CacheKey(op.env)].expiresAt - now <= 30000

(***************************************************************************)
(* Properties of interleaved getAccessToken calls                          *)
(***************************************************************************)
\* credentials whose ids differ, a clientId with a colon among them
KeyCredentials ==
    [envId : {"t1", "t2"}, clientId : {"c1", "c2", "c1:t2", "t2:c1"}]

\* the response the entry of the credential of slot s was made from came from
\* an exchange of that tenantId and clientId
FromOwnExchange(s, g) ==
    /\ g.envId = auth'[s].env.envId
    /\ g.clientId = auth'[s].env.clientId
    /\ g.access_token = auth'[s].result

\* C24: however the calls interleave at their token requests, the token a call
\* returns is the one of a response to an exchange made with the tenantId and
\* the clientId of the caller; an entry always holds the token and the expiry
\* of one response; credentials that differ in tenantId or in clientId have
\* different entries
C24_EntriesOfOneResponse ==
    /\ [](\A k \in CacheKeys :
             tokenCache[k].present =>
                 /\ tokenCache[k].token = grants[k].access_token
                 /\ tokenCache[k].expiresAt = grants[k].at + grants[k].expires_in * 1000
                 /\ k = grants[k].envId \o ":" \o grants[k].clientId)
    /\ [](\A a, b \in KeyCredentials \cup
                       {[envId |-> e.envId, clientId |-> e.clientId] : e \in Envs} :
             a # b => CacheKey(a) # CacheKey(b))
    /\ [][\A s \in Slots :
             /\ AuthAnswered(s) /\ auth'[s].pc = "returned" =>
                    /\ FromOwnExchange(s, grants'[CacheKey(auth[s].env)])
                    /\ grants'[CacheKey(auth[s].env)].at = now
             /\ AuthCalled(s) /\ auth'[s].pc = "returned" =>
                    FromOwnExchange(s, grants[CacheKey(auth'[s].env)])]_vars

\* two calls for the same credential waited together: the second was answered
\* first with (tokB, 40), the first then with (tokA, 30), which is the entry
C24_Witness ==
    /\ auth[1].pc = "returned"
    /\ auth[2].pc = "returned"
    /\ auth[1].sent = 1
    /\ auth[2].sent = 1
    /\ CacheKey(auth[1].env) = CacheKey(auth[2].env)
    /\ auth[1].result = "tokA"
    /\ auth[2].result = "tokB"
    /\ tokenCache[CacheKey(auth[1].env)].token = "tokA"
    /\ tokenCache[CacheKey(auth[1].env)].expiresAt = now + 30000

(***************************************************************************)
(* Termination of listForms                                                *)
(***************************************************************************)
ListingInProgress ==
    op.kind = "listForms" /\ oppc \in {"auth", "inflight", "backoff"}

\* C25: whatever pages and next links the platform answers with, a next link
\* back to a page already fetched included, a call of listForms whose requests
\* are all answered ends: it returns the list or raises an error
C25_ListFormsTerminates ==
    ListingInProgress ~> oppc \in {"returned", "threw"}

(***************************************************************************)
(* Forms created by uploadForm                                             *)
(***************************************************************************)
\* the forms the platform holds for tenant t beyond the initial ones: under
\* SpecUpload every one of them was created by the requests of one call
CreatedFor(t) == Len(stored[t]) - Len(InitialForms[t])

\* C26: one uploadForm call creates at most one form on the platform, also
\* when the platform keeps the form and answers the POST with 429 or 5xx
C26_AtMostOneFormPerUpload ==
    \A t \in Tenants : CreatedFor(t) <= 1

(***************************************************************************)
(* handleExport: the summary of an export                                  *)
(***************************************************************************)
\* selectedForms.forEach((form, index) => { const filePath =
\* downloadedFiles[index]; if (filePath) console.log(`${form.name} -> ${filePath}`) })
ExportSummary(selectedForms, files) ==
    [index \in DOMAIN selectedForms |->
        IF index <= Len(files) /\ files[index] # <<>>
        THEN [printed |-> TRUE, name |-> selectedForms[index].name, path |-> files[index]]
        ELSE [printed |-> FALSE, name |-> selectedForms[index].name, path |-> <<>>]]

\* `Downloaded Forms (${downloadedFiles.length})`
DownloadedCount(files) == Len(files)

\* downloadForms has returned to handleExport
ExportReturned == batch.kind = "export" /\ bpc = "done"

\* the file of the selected form number i was written by this export
SavedByExport(i) ==
    \E j \in DOMAIN downloadedFiles :
        downloadedFiles[j] = PathOf(FilenameOf(batch.items[i].name))

\* C27: in the summary of an export every printed line pairs a selected form
\* with the path of the file this form was saved to, a form skipped because
\* the user declined to overwrite is printed with no path, and the number shown
\* as downloaded is the number of files written
C27_SummaryPairsFormWithItsFile ==
    ExportReturned =>
        LET lines == ExportSummary(batch.items, downloadedFiles)
        IN  /\ \A i \in DOMAIN lines :
                   lines[i].printed =>
                       /\ SavedByExport(i)
                       /\ lines[i].path = PathOf(FilenameOf(batch.items[i].name))
            /\ \A i \in DOMAIN lines : ~SavedByExport(i) => ~lines[i].printed
            /\ DownloadedCount(downloadedFiles)
                   = Cardinality({i \in DOMAIN batch.items : SavedByExport(i)})

====
